---- MODULE Spec2Model ----
(***************************************************************************)
(* A model of the Harlowe passage processor (harlowe.py): the recursive    *)
(* tokenizer, the node classes with their serializers, the HTML escaping   *)
(* codec and the passage object.                                           *)
(*                                                                         *)
(* A Python string is a sequence of one-character strings.  A node is a    *)
(* record with a field k naming its class; a bare Python string inside a   *)
(* node list is the record [k |-> "Text", s |-> chars].  Python's None is  *)
(* kept as an explicit flag next to the value it qualifies.                *)
(***************************************************************************)
EXTENDS Integers, Sequences, FiniteSets, TLC

(***************************************************************************)
(* Character classes of the patterns (harlowe.py lines 20-34).             *)
(***************************************************************************)
LowerLetters ==
  {"a", "b", "c", "d", "g", "i", "l", "m", "o", "p", "s", "t", "v", "x", "y"}

UpperLetters == {"A", "D", "G", "M", "T"}

Digits == {"0", "1"}

\* [a-zA-Z] plus the unicode letters of _UNICODE_LETTERS_PATTERN
IsLetter(c) == c \in LowerLetters \cup UpperLetters

\* \w of the re module: letters, digits and the underscore
IsWord(c) == IsLetter(c) \/ c \in Digits \/ c = "_"

\* [\w\-] : the class of _HOOK_NAME_PATTERN and of the tail of a macro name
IsNameChar(c) == IsWord(c) \/ c = "-"

\* [\w\-\\/] : the class of the first character of a macro name
IsMacroFirstChar(c) == IsNameChar(c) \/ c = "\\" \/ c = "/"

\* the grave accent that opens verbatim text (a string literal of the module
\* cannot hold that character, so it is written by name)
Backtick == "grave"

\* s[i:] of Python with i counted from 1: the suffix that starts at index i
From(s, i) == SubSeq(s, i, Len(s))

\* the length of the longest prefix of s made of \w characters
RECURSIVE WordRun(_)
WordRun(s) ==
  IF s = <<>> \/ ~IsWord(Head(s)) THEN 0 ELSE 1 + WordRun(Tail(s))

\* the length of the longest prefix of s made of [\w\-] characters
RECURSIVE NameRun(_)
NameRun(s) ==
  IF s = <<>> \/ ~IsNameChar(Head(s)) THEN 0 ELSE 1 + NameRun(Tail(s))

HasLetter(s) == \E i \in 1..Len(s) : IsLetter(s[i])

(***************************************************************************)
(* _escape_harlowe_html: five str.replace passes, the ampersand first.     *)
(***************************************************************************)
RECURSIVE Replace(_, _, _)
Replace(s, c, r) ==
  IF s = <<>> THEN <<>>
  ELSE (IF Head(s) = c THEN r ELSE <<Head(s)>>) \o Replace(Tail(s), c, r)

\* a wrong order of the passes: the ampersand replaced last
EscapeAmpersandLast(s) ==
  Replace(Replace(Replace(Replace(Replace(s,
      "<", <<"&", "l", "t", ";">>),
      ">", <<"&", "g", "t", ";">>),
      "\"", <<"&", "q", "u", "o", "t", ";">>),
      "'", <<"&", "#", "3", "9", ";">>),
      "&", <<"&", "a", "m", "p", ";">>)

escape_harlowe_html(s) ==
  Replace(Replace(Replace(Replace(Replace(s,
      "&", <<"&", "a", "m", "p", ";">>),
      "<", <<"&", "l", "t", ";">>),
      ">", <<"&", "g", "t", ";">>),
      "\"", <<"&", "q", "u", "o", "t", ";">>),
      "'", <<"&", "#", "3", "9", ";">>)

(***************************************************************************)
(* The node classes (constructors).                                        *)
(***************************************************************************)
Text(s) == [k |-> "Text", s |-> s]

HarloweVariable(name) == [k |-> "Variable", name |-> name]

\* nametag None is has_nametag = FALSE (nametag is then the empty string)
HarloweHook(hook, has_nametag, nametag, nametag_on_right) ==
  [k |-> "Hook", hook |-> hook, has_nametag |-> has_nametag,
   nametag |-> nametag, nametag_on_right |-> nametag_on_right]

\* passage_name None is has_passage_name = FALSE (passage_name is then <<>>)
HarloweLink(link_text, has_passage_name, passage_name, passage_on_right) ==
  [k |-> "Link", link_text |-> link_text, has_passage_name |-> has_passage_name,
   passage_name |-> passage_name, passage_on_right |-> passage_on_right]

Lower(c) ==
  CASE c = "A" -> "a" [] c = "B" -> "b" [] c = "C" -> "c" [] c = "D" -> "d"
    [] c = "E" -> "e" [] c = "F" -> "f" [] c = "G" -> "g" [] c = "H" -> "h"
    [] c = "I" -> "i" [] c = "J" -> "j" [] c = "K" -> "k" [] c = "L" -> "l"
    [] c = "M" -> "m" [] c = "N" -> "n" [] c = "O" -> "o" [] c = "P" -> "p"
    [] c = "Q" -> "q" [] c = "R" -> "r" [] c = "S" -> "s" [] c = "T" -> "t"
    [] c = "U" -> "u" [] c = "V" -> "v" [] c = "W" -> "w" [] c = "X" -> "x"
    [] c = "Y" -> "y" [] c = "Z" -> "z"
    [] OTHER -> c

\* strip_symbols_re.sub('', name.lower())
RECURSIVE CanonicalName(_)
CanonicalName(s) ==
  IF s = <<>> THEN <<>>
  ELSE (IF Head(s) \in {"-", "_"} THEN <<>> ELSE <<Lower(Head(s))>>)
       \o CanonicalName(Tail(s))

\* name is a Text node (a str) or a Variable node
HarloweMacro(name, code) ==
  [k |-> "Macro", name_in_source |-> name,
   canonical_name |-> IF name.k = "Text" THEN Text(CanonicalName(name.s)) ELSE name,
   code |-> code]

(***************************************************************************)
(* Errors: "" is "no exception"; an exception ends every caller.           *)
(***************************************************************************)
NoErr == ""

\* the value of a str(): the text, or the exception it raised
StrOk(s) == [err |-> NoErr, s |-> s]

StrErr(e) == [err |-> e, s |-> <<>>]

StrCat(a, b) ==
  IF a.err # NoErr THEN a
  ELSE IF b.err # NoErr THEN b
  ELSE StrOk(a.s \o b.s)

(***************************************************************************)
(* _unescape_string and _escape_string: the backslash codec of the string  *)
(* literals of macro code.  A character the alphabet of the model has no   *)
(* name for is the string "chr" followed by its code point.                *)
(***************************************************************************)
LineFeed == "LF"

Tab == "TAB"

HexDigits ==
  {"0", "1", "2", "3", "4", "5", "6", "7", "8", "9",
   "a", "b", "c", "d", "e", "f", "A", "B", "C", "D", "E", "F"}

OctalDigits == {"0", "1", "2", "3", "4", "5", "6", "7"}

HexValue(c) ==
  CASE c = "0" -> 0 [] c = "1" -> 1 [] c = "2" -> 2 [] c = "3" -> 3 [] c = "4" -> 4
    [] c = "5" -> 5 [] c = "6" -> 6 [] c = "7" -> 7 [] c = "8" -> 8 [] c = "9" -> 9
    [] c \in {"a", "A"} -> 10 [] c \in {"b", "B"} -> 11 [] c \in {"c", "C"} -> 12
    [] c \in {"d", "D"} -> 13 [] c \in {"e", "E"} -> 14 [] c \in {"f", "F"} -> 15

\* int(digits, base)
RECURSIVE DigitsValue(_, _)
DigitsValue(ds, base) ==
  IF ds = <<>> THEN 0
  ELSE DigitsValue(SubSeq(ds, 1, Len(ds) - 1), base) * base + HexValue(ds[Len(ds)])

\* chr(n)
CharOf(n) ==
  CASE n = 7 -> "BEL" [] n = 8 -> "BS" [] n = 9 -> Tab [] n = 10 -> LineFeed
    [] n = 11 -> "VT" [] n = 12 -> "FF" [] n = 13 -> "CR"
    [] n = 32 -> " " [] n = 34 -> "\"" [] n = 39 -> "'" [] n = 92 -> "\\"
    [] n = 48 -> "0" [] n = 49 -> "1"
    [] n = 65 -> "A" [] n = 68 -> "D" [] n = 71 -> "G" [] n = 77 -> "M" [] n = 84 -> "T"
    [] n = 97 -> "a" [] n = 98 -> "b" [] n = 99 -> "c" [] n = 100 -> "d"
    [] n = 103 -> "g" [] n = 105 -> "i" [] n = 108 -> "l" [] n = 109 -> "m"
    [] n = 111 -> "o" [] n = 112 -> "p" [] n = 115 -> "s" [] n = 116 -> "t"
    [] n = 118 -> "v" [] n = 120 -> "x" [] n = 121 -> "y"
    [] OTHER -> "chr" \o ToString(n)

\* the character of a single-character escape \\ \' \" \a \b \f \n \r \t \v
SingleCharEscape(c) ==
  CASE c = "a" -> "BEL" [] c = "b" -> "BS" [] c = "f" -> "FF" [] c = "n" -> LineFeed
    [] c = "r" -> "CR" [] c = "t" -> Tab [] c = "v" -> "VT"
    [] OTHER -> c

\* the names \N{...} resolves among those the letters of the model can spell
NamedChars == {<<"T", "A", "B">>, <<"t", "a", "b">>}

\* the value the codec returns, or the exception it raises
Decoded(s) == [err |-> NoErr, s |-> s]

DecodeErr == [err |-> "UnicodeDecodeError", s |-> <<>>]

\* the number of leading octal digits of s, three at most
OctalRun(s) ==
  IF Len(s) >= 3 /\ s[1] \in OctalDigits /\ s[2] \in OctalDigits /\ s[3] \in OctalDigits THEN 3
  ELSE IF Len(s) >= 2 /\ s[1] \in OctalDigits /\ s[2] \in OctalDigits THEN 2
  ELSE IF Len(s) >= 1 /\ s[1] \in OctalDigits THEN 1
  ELSE 0

\* the index of the first '}' of s, 0 if it has none
RECURSIVE FirstBrace(_)
FirstBrace(s) ==
  IF s = <<>> THEN 0
  ELSE IF Head(s) = "}" THEN 1
  ELSE IF FirstBrace(Tail(s)) = 0 THEN 0 ELSE 1 + FirstBrace(Tail(s))

\* n characters follow index i of s and none of them is a line feed (the '.' of
\* the pattern does not match one)
DotsAfter(s, i, n) == Len(s) >= i + n /\ \A j \in (i + 1)..(i + n) : s[j] # LineFeed

\* codecs.decode(match, 'unicode-escape') of a \x.., \u.... or \U........ match
HexEscape(ds) ==
  IF (\A j \in 1..Len(ds) : ds[j] \in HexDigits) /\ DigitsValue(ds, 16) <= 1114111
  THEN Decoded(<<CharOf(DigitsValue(ds, 16))>>)
  ELSE DecodeErr

\* the length of the match of the escape_sequence pattern at the head of s (0: no
\* match), the alternatives tried in the order of the pattern
EscapeSequenceLen(s) ==
  IF Len(s) < 2 \/ s[1] # "\\" THEN 0
  ELSE IF s[2] = "U" /\ DotsAfter(s, 2, 8) THEN 10
  ELSE IF s[2] = "u" /\ DotsAfter(s, 2, 4) THEN 6
  ELSE IF s[2] = "x" /\ DotsAfter(s, 2, 2) THEN 4
  ELSE IF s[2] \in OctalDigits THEN 1 + OctalRun(Tail(s))
  ELSE IF s[2] = "N" /\ Len(s) >= 5 /\ s[3] = "{" /\ FirstBrace(From(s, 4)) > 1
       THEN 3 + FirstBrace(From(s, 4))
  ELSE IF s[2] \in {"\\", "'", "\"", "a", "b", "f", "n", "r", "t", "v"} THEN 2
  ELSE 0

\* codecs.decode(match, 'unicode-escape') of one match of the pattern
DecodeEscape(m) ==
  CASE m[2] \in {"U", "u", "x"} /\ Len(m) > 2 -> HexEscape(From(m, 3))
    [] m[2] \in OctalDigits -> Decoded(<<CharOf(DigitsValue(Tail(m), 8))>>)
    [] m[2] = "N" ->
         IF SubSeq(m, 4, Len(m) - 1) \in NamedChars THEN Decoded(<<Tab>>) ELSE DecodeErr
    [] OTHER -> Decoded(<<SingleCharEscape(m[2])>>)

\* _unescape_string(s): escape_sequence.sub over s, left to right
RECURSIVE unescape_string(_)
unescape_string(s) ==
  IF s = <<>> THEN Decoded(<<>>)
  ELSE LET n == EscapeSequenceLen(s)
       IN IF n = 0
          THEN LET rest == unescape_string(Tail(s))
               IN IF rest.err # NoErr THEN rest ELSE Decoded(<<Head(s)>> \o rest.s)
          ELSE LET d == DecodeEscape(SubSeq(s, 1, n))
                   rest == unescape_string(From(s, n + 1))
               IN IF d.err # NoErr THEN d
                  ELSE IF rest.err # NoErr THEN rest
                  ELSE Decoded(d.s \o rest.s)

\* _escape_string(s, surrounding_quote)
escape_string(s, surrounding_quote) ==
  LET s1 == Replace(s, "\\", <<"\\", "\\">>)
      s2 == IF surrounding_quote = "\"" THEN Replace(s1, "\"", <<"\\", "\"">>) ELSE s1
  IN IF surrounding_quote = "'" THEN Replace(s2, "'", <<"\\", "'">>) ELSE s2

(***************************************************************************)
(* __str__ of the nodes and escape_list.                                   *)
(***************************************************************************)
RECURSIVE NodeStr(_)
RECURSIVE escape_list(_)

\* ''.join(escape_list(l))
escape_list(l) ==
  IF l = <<>> THEN StrOk(<<>>)
  ELSE StrCat(IF Head(l).k = "Text" THEN StrOk(escape_harlowe_html(Head(l).s))
              ELSE NodeStr(Head(l)),
              escape_list(Tail(l)))

VariableStr(n) == StrOk(<<"$">> \o n.name)

\* a hook str that writes the nametag always on the right
HookStrTagAlwaysRight(n) ==
  LET body == StrCat(StrOk(<<"[">>), StrCat(escape_list(n.hook), StrOk(<<"]">>)))
  IN IF n.nametag # <<>>
     THEN StrCat(body, StrOk(<<"&", "l", "t", ";">> \o escape_harlowe_html(n.nametag) \o <<"|">>))
     ELSE body

HookStr(n) ==
  LET body == StrCat(StrOk(<<"[">>), StrCat(escape_list(n.hook), StrOk(<<"]">>)))
  IN IF n.nametag # <<>>
     THEN IF n.nametag_on_right
          THEN StrCat(body, StrOk(<<"&", "l", "t", ";">> \o escape_harlowe_html(n.nametag) \o <<"|">>))
          ELSE StrCat(StrOk(<<"|">> \o escape_harlowe_html(n.nametag) \o <<"&", "g", "t", ";">>), body)
     ELSE body

\* a link str that writes every arrow link with the right arrow
LinkStrAlwaysRight(n) ==
  LET lt == escape_list(n.link_text)
      open == StrOk(<<"[", "[">>)
      close == StrOk(<<"]", "]">>)
  IN IF n.passage_name # <<>>
     THEN StrCat(open, StrCat(lt, StrCat(StrOk(<<"-", "&", "g", "t", ";">>),
                 StrCat(escape_list(n.passage_name), close))))
     ELSE StrCat(open, StrCat(lt, close))

LinkStr(n) ==
  LET lt == escape_list(n.link_text)
      open == StrOk(<<"[", "[">>)
      close == StrOk(<<"]", "]">>)
  IN IF n.passage_name # <<>>
     THEN LET pn == escape_list(n.passage_name)
          IN IF n.passage_on_right
             THEN StrCat(open, StrCat(lt, StrCat(StrOk(<<"-", "&", "g", "t", ";">>),
                         StrCat(pn, close))))
             ELSE StrCat(open, StrCat(pn, StrCat(StrOk(<<"&", "l", "t", ";", "-">>),
                         StrCat(lt, close))))
     ELSE StrCat(open, StrCat(lt, close))

\* a macro str that writes the canonical name instead of the name in source
MacroStrCanonical(n) ==
  StrCat(IF n.canonical_name.k = "Text"
         THEN StrOk(<<"(">> \o escape_harlowe_html(n.canonical_name.s) \o <<":">>)
         ELSE StrErr("AttributeError"),
         StrCat(escape_list(n.code), StrOk(<<")">>)))

\* _escape_harlowe_html(self.name_in_source) calls .replace on the name: a
\* HarloweVariable has no such attribute
MacroStr(n) ==
  StrCat(IF n.name_in_source.k = "Text"
         THEN StrOk(<<"(">> \o escape_harlowe_html(n.name_in_source.s) \o <<":">>)
         ELSE StrErr("AttributeError"),
         StrCat(escape_list(n.code), StrOk(<<")">>)))

NodeStr(n) ==
  CASE n.k = "Variable" -> VariableStr(n)
    [] n.k = "Hook" -> HookStr(n)
    [] n.k = "Link" -> LinkStr(n)
    [] n.k = "Macro" -> MacroStr(n)

(***************************************************************************)
(* _append_with_string_merge: two adjacent strings become one.             *)
(***************************************************************************)
\* a plain append, without the merge
AppendNoMerge(seq, new_item) == Append(seq, new_item)

append_with_string_merge(seq, new_item) ==
  IF seq # <<>> /\ new_item.k = "Text" /\ seq[Len(seq)].k = "Text"
  THEN Append(SubSeq(seq, 1, Len(seq) - 1), Text(seq[Len(seq)].s \o new_item.s))
  ELSE Append(seq, new_item)

\* for item in parsed_objs: _append_with_string_merge(token_list, item)
RECURSIVE AppendAll(_, _)
AppendAll(token_list, parsed_objs) ==
  IF parsed_objs = <<>> THEN token_list
  ELSE AppendAll(append_with_string_merge(token_list, Head(parsed_objs)),
                 Tail(parsed_objs))

(***************************************************************************)
(* The token patterns (_START_TOKENS, _START_TOKEN_PATTERNS) and the stop  *)
(* token patterns the handlers pass to tokenize.                           *)
(***************************************************************************)
NoStopPattern == "None"

HookStopPattern == "\\]<?"

MacroStopPattern == "\\)"

\* the number of consecutive c at the head of s
RECURSIVE CharRun(_, _)
CharRun(s, c) ==
  IF s = <<>> \/ Head(s) # c THEN 0 ELSE 1 + CharRun(Tail(s), c)

\* group 'start' of the token pattern matched at index i of s (<<>>: no match):
\* \[\[(?!\[) | \[(?!\[) | \| | \( | \$ | (Backtick)+? | \[{3,}
StartTokenAt(s, i) ==
  LET c == s[i]
      run == CharRun(From(s, i), "[")
  IN CASE c = "[" -> SubSeq(s, i, i + run - 1)
       [] c \in {"|", "(", "$", Backtick} -> <<c>>
       [] OTHER -> <<>>

\* a stop group that is in the pattern whether a stop pattern was given or not
StopTokenAtAnyPattern(s, i, stop_token_pattern) ==
  CASE s[i] = "]" /\ stop_token_pattern # MacroStopPattern ->
         IF i < Len(s) /\ s[i + 1] = "<" THEN <<"]", "<">> ELSE <<"]">>
    [] s[i] = ")" /\ stop_token_pattern # HookStopPattern -> <<")">>
    [] OTHER -> <<>>

\* group 'stop' of the token pattern matched at index i of s (<<>>: no match)
StopTokenAt(s, i, stop_token_pattern) ==
  CASE stop_token_pattern = HookStopPattern /\ s[i] = "]" ->
         IF i < Len(s) /\ s[i + 1] = "<" THEN <<"]", "<">> ELSE <<"]">>
    [] stop_token_pattern = MacroStopPattern /\ s[i] = ")" -> <<")">>
    [] OTHER -> <<>>

\* token_re.search(s): the index of the leftmost match, 0 when there is none
RECURSIVE SearchFrom(_, _, _)
SearchFrom(s, i, stop_token_pattern) ==
  IF i > Len(s) THEN 0
  ELSE IF StartTokenAt(s, i) # <<>> \/ StopTokenAt(s, i, stop_token_pattern) # <<>>
       THEN i
       ELSE SearchFrom(s, i + 1, stop_token_pattern)

\* the value a handler returns: (parsed objects, remaining string), or an exception
Parsed(objs, rest) == [objs |-> objs, rest |-> rest, err |-> NoErr]

ParsedErr(e) == [objs |-> <<>>, rest |-> <<>>, err |-> e]

\* the value tokenize returns: (token list, matched stop token, remaining string);
\* a stop token of <<>> is None, and the remaining string is then None too
Tokenized(toks, stop, rest) == [toks |-> toks, stop |-> stop, rest |-> rest, err |-> NoErr]

TokenizedErr(e) == [toks |-> <<>>, stop |-> <<>>, rest |-> <<>>, err |-> e]

(***************************************************************************)
(* The handlers and tokenize, mutually recursive.                          *)
(***************************************************************************)
RECURSIVE tokenize_loop(_, _, _)
RECURSIVE parse_hook(_, _)
RECURSIVE parse_link(_, _)
RECURSIVE parse_macro(_, _)
RECURSIVE parse_nested_brackets_loop(_, _, _)

tokenize(s, stop_token_pattern) == tokenize_loop(s, stop_token_pattern, <<>>)

\* variable_re.match(s) with [\w]*[a-zA-Z][\w]*: the longest run of word
\* characters, provided it holds a letter
\* a variable parser that, when no name follows, gives the '$' back to tokenize
parse_variable_keeps_match(match, s) ==
  LET n == WordRun(s)
  IN IF HasLetter(SubSeq(s, 1, n))
     THEN Parsed(<<HarloweVariable(SubSeq(s, 1, n))>>, From(s, n + 1))
     ELSE Parsed(<<>>, match \o s)

parse_variable(match, s) ==
  LET n == WordRun(s)
  IN IF HasLetter(SubSeq(s, 1, n))
     THEN Parsed(<<HarloweVariable(SubSeq(s, 1, n))>>, From(s, n + 1))
     ELSE Parsed(<<Text(match)>>, s)

\* the position after a match of (?P<nametag>[\w\-]*)>\[ at the head of s, 0 if none
LeftTagEnd(s) ==
  LET n == NameRun(s)
  IN IF Len(s) >= n + 2 /\ s[n + 1] = ">" /\ s[n + 2] = "[" THEN n + 2 ELSE 0

\* the position after a match of (?P<nametag>[\w\-]*)\| at the head of s, 0 if none
RightTagEnd(s) ==
  LET n == NameRun(s)
  IN IF Len(s) >= n + 1 /\ s[n + 1] = "|" THEN n + 1 ELSE 0

\* a hook parser that keeps the '<' of the stop token when no nametag follows it
parse_hook_drops_lt(match, s) ==
  LET left == IF match = <<"|">> THEN LeftTagEnd(s) ELSE 0
      s0 == IF match = <<"|">> THEN From(s, left + 1) ELSE s
      r == tokenize(s0, HookStopPattern)
      rt == RightTagEnd(r.rest)
  IN IF match = <<"|">> /\ left = 0 THEN Parsed(<<Text(match)>>, s)
     ELSE IF r.err # NoErr THEN ParsedErr(r.err)
     ELSE IF r.stop = <<>> THEN Parsed(<<Text(match)>>, s)
     ELSE IF r.stop = <<"]", "<">> /\ rt > 0
          THEN Parsed(<<HarloweHook(r.toks, TRUE, SubSeq(r.rest, 1, rt - 1), TRUE)>>,
                      From(r.rest, rt + 1))
          ELSE Parsed(<<HarloweHook(r.toks, match = <<"|">>,
                                    IF match = <<"|">> THEN SubSeq(s, 1, left - 2) ELSE <<>>,
                                    FALSE)>>, r.rest)

\* a hook parser that, when no stop token is found, resumes after the nametag
\* and its '[' instead of after the trigger character
parse_hook_resumes_after_tag(match, s) ==
  LET left == IF match = <<"|">> THEN LeftTagEnd(s) ELSE 0
      s0 == IF match = <<"|">> THEN From(s, left + 1) ELSE s
      r == tokenize(s0, HookStopPattern)
      rt == RightTagEnd(r.rest)
      has_left == match = <<"|">>
      left_tag == IF has_left THEN SubSeq(s, 1, left - 2) ELSE <<>>
  IN IF match = <<"|">> /\ left = 0 THEN Parsed(<<Text(match)>>, s)
     ELSE IF r.err # NoErr THEN ParsedErr(r.err)
     ELSE IF r.stop = <<>> THEN Parsed(<<Text(match)>>, s0)
     ELSE IF r.stop = <<"]", "<">>
          THEN IF rt > 0
               THEN Parsed(<<HarloweHook(r.toks, TRUE, SubSeq(r.rest, 1, rt - 1), TRUE)>>,
                           From(r.rest, rt + 1))
               ELSE Parsed(<<HarloweHook(r.toks, has_left, left_tag, FALSE)>>,
                           <<"<">> \o r.rest)
          ELSE Parsed(<<HarloweHook(r.toks, has_left, left_tag, FALSE)>>, r.rest)

parse_hook(match, s) ==
  LET left == IF match = <<"|">> THEN LeftTagEnd(s) ELSE 0
      s0 == IF match = <<"|">> THEN From(s, left + 1) ELSE s
      r == tokenize(s0, HookStopPattern)
      rt == RightTagEnd(r.rest)
      has_left == match = <<"|">>
      left_tag == IF has_left THEN SubSeq(s, 1, left - 2) ELSE <<>>
  IN IF match = <<"|">> /\ left = 0 THEN Parsed(<<Text(match)>>, s)
     ELSE IF r.err # NoErr THEN ParsedErr(r.err)
     ELSE IF r.stop = <<>> THEN Parsed(<<Text(match)>>, s)
     ELSE IF r.stop = <<"]", "<">>
          THEN IF rt > 0
               THEN Parsed(<<HarloweHook(r.toks, TRUE, SubSeq(r.rest, 1, rt - 1), TRUE)>>,
                           From(r.rest, rt + 1))
               ELSE Parsed(<<HarloweHook(r.toks, has_left, left_tag, FALSE)>>,
                           <<"<">> \o r.rest)
          ELSE Parsed(<<HarloweHook(r.toks, has_left, left_tag, FALSE)>>, r.rest)

\* the number of characters of s before its first ']' (the reach of [^]]*)
RECURSIVE NoBracketRun(_)
NoBracketRun(s) ==
  IF s = <<>> \/ Head(s) = "]" THEN 0 ELSE 1 + NoBracketRun(Tail(s))

\* the arrows of a link body at which both sides are non-empty
RightArrows(body) ==
  {i \in 2..(Len(body) - 2) : body[i] = "-" /\ body[i + 1] = ">"}

LeftArrows(body) ==
  {i \in 2..(Len(body) - 2) : body[i] = "<" /\ body[i + 1] = "-"}

Max(S) == CHOOSE x \in S : \A y \in S : y <= x

Min(S) == CHOOSE x \in S : \A y \in S : x <= y

\* the groups of a match of the link pattern; form says which alternative matched
LinkMatch(form, description, destination, end) ==
  [matched |-> TRUE, form |-> form, description |-> description,
   destination |-> destination, end |-> end]

NoLinkMatch ==
  [matched |-> FALSE, form |-> "none", description |-> <<>>, destination |-> <<>>, end |-> 0]

\* a link pattern whose desc1 group is lazy: it splits at the leftmost '->'
link_match_leftmost_arrow(s) ==
  LET n == NoBracketRun(s)
      body == SubSeq(s, 1, n)
      ra == RightArrows(body)
      la == LeftArrows(body)
  IN IF ~(Len(s) >= n + 2 /\ s[n + 1] = "]" /\ s[n + 2] = "]") THEN NoLinkMatch
     ELSE IF ra # {}
          THEN LinkMatch("desc1->dest1", SubSeq(body, 1, Min(ra) - 1),
                         From(body, Min(ra) + 2), n + 2)
     ELSE IF la # {}
          THEN LinkMatch("dest2<-desc2", From(body, Min(la) + 2),
                         SubSeq(body, 1, Min(la) - 1), n + 2)
     ELSE LinkMatch("contents", body, <<>>, n + 2)

\* link_re.match(s) with _LINK_CONTENTS_PATTERN followed by \]\]: no class of the
\* pattern crosses a ']', so the body is the text before the first ']' and the
\* match needs ']]' right after it; desc1 is greedy (the rightmost '->' with two
\* non-empty sides), dest2 is lazy (the leftmost '<-' with two non-empty sides),
\* and 'contents' takes the whole body when neither arrow splits it
link_match(s) ==
  LET n == NoBracketRun(s)
      body == SubSeq(s, 1, n)
      ra == RightArrows(body)
      la == LeftArrows(body)
  IN IF ~(Len(s) >= n + 2 /\ s[n + 1] = "]" /\ s[n + 2] = "]") THEN NoLinkMatch
     ELSE IF ra # {}
          THEN LinkMatch("desc1->dest1", SubSeq(body, 1, Max(ra) - 1),
                         From(body, Max(ra) + 2), n + 2)
     ELSE IF la # {}
          THEN LinkMatch("dest2<-desc2", From(body, Min(la) + 2),
                         SubSeq(body, 1, Min(la) - 1), n + 2)
     ELSE LinkMatch("contents", body, <<>>, n + 2)

parse_link(match, s) ==
  LET link_match_ == link_match(s)
      rest == From(s, link_match_.end + 1)
      contents_ == tokenize(link_match_.description, NoStopPattern)
      desc == tokenize(link_match_.description, NoStopPattern)
      dest == tokenize(link_match_.destination, NoStopPattern)
  IN IF ~link_match_.matched
     \* not a link: two nested hooks, perhaps
     THEN parse_hook(<<Head(match)>>, Tail(match) \o s)
     ELSE IF link_match_.form = "contents" /\ link_match_.description # <<>>
     \* [[contents]]
     THEN IF contents_.err # NoErr THEN ParsedErr(contents_.err)
          ELSE IF contents_.rest # <<>> THEN ParsedErr("RuntimeError")
          ELSE Parsed(<<HarloweLink(contents_.toks, FALSE, <<>>, TRUE)>>, rest)
     \* [[desc->dest]], [[dest<-desc]], and [[]] whose groups are all None or
     \* empty: both sides are then tokenize(None) and dest_on_right is False
     ELSE IF desc.err # NoErr THEN ParsedErr(desc.err)
     ELSE IF desc.rest # <<>> THEN ParsedErr("RuntimeError")
     ELSE IF dest.err # NoErr THEN ParsedErr(dest.err)
     ELSE IF dest.rest # <<>> THEN ParsedErr("RuntimeError")
     ELSE Parsed(<<HarloweLink(desc.toks, TRUE, dest.toks,
                               link_match_.form = "desc1->dest1")>>, rest)

\* the position after a match of _MACRO_NAME_PATTERN at the head of s, 0 if none
MacroNameEnd(s) ==
  IF s = <<>> THEN 0
  ELSE IF IsMacroFirstChar(s[1])
       THEN LET n == 1 + NameRun(Tail(s))
            IN IF Len(s) > n /\ s[n + 1] = ":" THEN n + 1 ELSE 0
  ELSE IF s[1] = "$"
       THEN LET n == WordRun(Tail(s))
            IN IF HasLetter(SubSeq(s, 2, n + 1)) /\ Len(s) > n + 1 /\ s[n + 2] = ":"
               THEN n + 2 ELSE 0
  ELSE 0

\* a macro parser that does not try to bind a hook to the macro
parse_macro_no_binding(match, s) ==
  LET e == MacroNameEnd(s)
      var == IF s # <<>> /\ s[1] = "$" THEN parse_variable(<<"$">>, SubSeq(s, 2, e - 1))
             ELSE Parsed(<<>>, <<>>)
      name == IF s[1] = "$" THEN var.objs[1] ELSE Text(SubSeq(s, 1, e - 1))
      r == tokenize(From(s, e + 1), MacroStopPattern)
  IN IF e = 0 THEN Parsed(<<Text(match)>>, s)
     ELSE IF var.rest # <<>> THEN Parsed(<<Text(match)>>, s)
     ELSE IF r.err # NoErr THEN ParsedErr(r.err)
     ELSE Parsed(<<HarloweMacro(name, r.toks)>>, r.rest)

parse_macro(match, s) ==
  LET e == MacroNameEnd(s)
      \* group 'name' is None: the variable group matched
      var == IF s # <<>> /\ s[1] = "$" THEN parse_variable(<<"$">>, SubSeq(s, 2, e - 1))
             ELSE Parsed(<<>>, <<>>)
      name == IF s[1] = "$" THEN var.objs[1] ELSE Text(SubSeq(s, 1, e - 1))
      r == tokenize(From(s, e + 1), MacroStopPattern)
      return_list == <<HarloweMacro(name, r.toks)>>
      h == parse_hook(<<"[">>, Tail(r.rest))
  IN IF e = 0 THEN Parsed(<<Text(match)>>, s)
     ELSE IF var.rest # <<>> THEN Parsed(<<Text(match)>>, s)
     ELSE IF r.err # NoErr THEN ParsedErr(r.err)
     ELSE IF r.rest # <<>> /\ r.rest[1] = "["
          THEN IF h.err # NoErr THEN ParsedErr(h.err)
               ELSE IF h.objs[1].k = "Hook"
                    THEN Parsed(return_list \o h.objs, h.rest)
                    ELSE Parsed(return_list, r.rest)
          ELSE Parsed(return_list, r.rest)

\* a loop that puts the hook parsed before at the end of the new hook's contents
parse_nested_brackets_loop_inner_last(match, s, nested_contents) ==
  IF match = <<>>
  THEN IF Len(nested_contents) # 1 THEN ParsedErr("RuntimeError")
       ELSE Parsed(nested_contents, s)
  ELSE LET h == parse_hook(<<match[Len(match)]>>, s)
           hook == h.objs[1]
       IN IF h.err # NoErr THEN ParsedErr(h.err)
          ELSE IF hook.k # "Hook" THEN ParsedErr("AttributeError")
          ELSE parse_nested_brackets_loop(
                 SubSeq(match, 1, Len(match) - 1), h.rest,
                 <<[hook EXCEPT !.hook = hook.hook \o nested_contents]>>)

\* the while loop of _parse_nested_brackets; hook.hook on the str that a failed
\* _parse_hook returns raises AttributeError
parse_nested_brackets_loop(match, s, nested_contents) ==
  IF match = <<>>
  THEN IF Len(nested_contents) # 1 THEN ParsedErr("RuntimeError")
       ELSE Parsed(nested_contents, s)
  ELSE LET h == parse_hook(<<match[Len(match)]>>, s)
           hook == h.objs[1]
       IN IF h.err # NoErr THEN ParsedErr(h.err)
          ELSE IF hook.k # "Hook" THEN ParsedErr("AttributeError")
          ELSE parse_nested_brackets_loop(
                 SubSeq(match, 1, Len(match) - 1), h.rest,
                 <<[hook EXCEPT !.hook = nested_contents \o hook.hook]>>)

parse_nested_brackets(match, s) == parse_nested_brackets_loop(match, s, <<>>)

\* the length of the text group of (?P<text>.+?)(Backtick){n} matched at the
\* head of s, 0 if there is no match ('.' does not match a line break)
VerbatimTextLen(s, n) ==
  LET ok == {j \in 1..(Len(s) - n) :
               /\ \A i \in 1..j : s[i] # LineFeed
               /\ \A i \in (j + 1)..(j + n) : s[i] = Backtick}
  IN IF ok = {} THEN 0 ELSE Min(ok)

\* the handler of a start token: _START_TOKENS[token], or the KeyError branch
\* of the bracket runs (the verbatim branch is in tokenize_loop)
Dispatch(token, s) ==
  CASE token = <<"[", "[">> -> parse_link(token, s)
    [] token = <<"[">> -> parse_hook(token, s)
    [] token = <<"|">> -> parse_hook(token, s)
    [] token = <<"(">> -> parse_macro(token, s)
    [] token = <<"$">> -> parse_variable(token, s)
    [] OTHER -> parse_nested_brackets(token, s)

\* one pass of the while loop of tokenize, then the next
tokenize_loop(s, stop_token_pattern, token_list) ==
  IF s = <<>> THEN Tokenized(token_list, <<>>, <<>>)
  ELSE
    LET m == SearchFrom(s, 1, stop_token_pattern)
        before == IF m > 1 THEN append_with_string_merge(token_list, Text(SubSeq(s, 1, m - 1)))
                  ELSE token_list
        token == StartTokenAt(s, m)
        after == From(s, m + Len(token))
        stop == StopTokenAt(s, m, stop_token_pattern)
        p == Dispatch(token, after)
        v == VerbatimTextLen(after, Len(token))
    IN IF m = 0
       THEN Tokenized(append_with_string_merge(token_list, Text(s)), <<>>, <<>>)
       ELSE IF token = <<>>
       THEN Tokenized(before, stop, From(s, m + Len(stop)))
       ELSE IF token[1] = Backtick
       THEN IF v = 0
            THEN tokenize_loop(after, stop_token_pattern,
                               append_with_string_merge(before, Text(token)))
            \* s = s[verbatim_match.end(0)] is one character, or an IndexError
            ELSE IF v + Len(token) + 1 > Len(after) THEN TokenizedErr("IndexError")
            ELSE tokenize_loop(<<after[v + Len(token) + 1]>>, stop_token_pattern,
                               append_with_string_merge(before, Text(SubSeq(after, 1, v))))
       ELSE IF p.err # NoErr THEN TokenizedErr(p.err)
       ELSE tokenize_loop(p.rest, stop_token_pattern, AppendAll(before, p.objs))

(***************************************************************************)
(* The calls the handlers make to tokenize: the pairs of a string and a    *)
(* stop pattern that the handler of a start token, given the string after  *)
(* the token, passes to tokenize, directly or through _parse_hook.         *)
(***************************************************************************)
\* _parse_hook: tokenize(s, stop_token_pattern=r'\]<?'), after the left nametag
HookCalls(match, s) ==
  LET left == IF match = <<"|">> THEN LeftTagEnd(s) ELSE 0
  IN IF match = <<"|">> /\ left = 0 THEN {}
     ELSE {<<IF match = <<"|">> THEN From(s, left + 1) ELSE s, HookStopPattern>>}

\* _parse_link: _parse_hook(match[0], match[1:] + s), or tokenize(contents), or
\* tokenize(description) and tokenize(destination)
LinkCalls(match, s) ==
  LET link_match_ == link_match(s)
  IN IF ~link_match_.matched THEN HookCalls(<<Head(match)>>, Tail(match) \o s)
     ELSE IF link_match_.form = "contents" /\ link_match_.description # <<>>
          THEN {<<link_match_.description, NoStopPattern>>}
     ELSE {<<link_match_.description, NoStopPattern>>,
           <<link_match_.destination, NoStopPattern>>}

\* _parse_macro: tokenize(s, stop_token_pattern=r'\)') after the name, then
\* _parse_hook(s1[0], s1[1:]) when a '[' follows
MacroCalls(match, s) ==
  LET e == MacroNameEnd(s)
      r == tokenize(From(s, e + 1), MacroStopPattern)
  IN IF e = 0 THEN {}
     ELSE {<<From(s, e + 1), MacroStopPattern>>}
            \cup (IF r.err = NoErr /\ r.rest # <<>> /\ r.rest[1] = "["
                  THEN HookCalls(<<"[">>, Tail(r.rest)) ELSE {})

\* _parse_nested_brackets: _parse_hook(match[-1], s) once for each bracket, each
\* on what the one before left
RECURSIVE RunCalls(_, _)
RunCalls(match, s) ==
  IF match = <<>> THEN {}
  ELSE LET h == parse_hook(<<match[Len(match)]>>, s)
       IN HookCalls(<<match[Len(match)]>>, s)
            \cup (IF h.err = NoErr /\ h.objs[1].k = "Hook"
                  THEN RunCalls(SubSeq(match, 1, Len(match) - 1), h.rest) ELSE {})

\* the calls of the handler of a start token
InnerCalls(token, s) ==
  CASE token = <<"[", "[">> -> LinkCalls(token, s)
    [] token = <<"[">> -> HookCalls(token, s)
    [] token = <<"|">> -> HookCalls(token, s)
    [] token = <<"(">> -> MacroCalls(token, s)
    [] token = <<"$">> -> {}
    [] OTHER -> RunCalls(token, s)

(***************************************************************************)
(* helper_functions.smartify_entities: a chain of regular-expression       *)
(* substitutions.  The curly quotes, the dashes and the ellipsis are       *)
(* written by name.                                                        *)
(***************************************************************************)
LeftSingle == "lsquo"

RightSingle == "rsquo"

LeftDouble == "ldquo"

RightDouble == "rdquo"

EnDash == "ndash"

EmDash == "mdash"

Ellipsis == "hellip"

\* \s
WhiteSpace == {" ", Tab, LineFeed, "VT", "FF", "CR"}

\* the character of s at index i, "" outside s
At(s, i) == IF i >= 1 /\ i <= Len(s) THEN s[i] ELSE ""

\* the text lit stands in s at index p
HasAt(s, p, lit) == p >= 1 /\ p + Len(lit) - 1 <= Len(s) /\ SubSeq(s, p, p + Len(lit) - 1) = lit

\* \b between index i and index i + 1 of s
WordBoundary(s, i) == IsWord(At(s, i)) # IsWord(At(s, i + 1))

\* punct_pattern
Punct ==
  {"!", "\"", "#", "$", "%", "'", "(", ")", "*", "+", ",", "-", ".", "/", ":", ";", "<",
   "=", ">", "?", "@", "[", "\\", "]", "^", "_", Backtick, "{", "|", "}", "~"}

\* close_pattern
IsClose(c) == c # "" /\ c \notin {" ", Tab, "CR", LineFeed, "[", "{", "(", "-"}

\* close_pattern_no_leading_single_quotes
IsCloseNoQuote(c) == IsClose(c) /\ c # "'"

\* the alternatives that stand before an opening quote: whitespace, &nbsp;,
\* two hyphens, the named dash entities, the dashes themselves, and the hex
\* dash entities after one more '&': the pattern is compiled with re.VERBOSE, in
\* which the '#' of dec_dashes_pattern opens a comment that runs to the end of
\* the line, so that of "&#8211;|...  |" only the '&' is left, in front of the
\* alternative of the next line
Openers ==
  {<<c>> : c \in WhiteSpace} \cup
  {<<"&", "n", "b", "s", "p", ";">>, <<"-", "-">>, <<"&", "m", "d", "a", "s", "h", ";">>,
   <<"&", "n", "d", "a", "s", "h", ";">>, <<EnDash>>, <<EmDash>>,
   <<"&", "&", "#", "x", "2", "0", "1", "3", ";">>,
   <<"&", "&", "#", "x", "2", "0", "1", "4", ";">>}

\* no match of the pattern starts here
NoMatch == [len |-> 0, by |-> <<>>]

\* the pattern matches len characters here, to be replaced by the text by
Match(len, by) == [len |-> len, by |-> by]

\* regex.sub: the matches are taken from the left and do not overlap; m[p] is
\* the match of the pattern that starts at index p of s
RECURSIVE sub_re(_, _, _)
sub_re(s, m, p) ==
  IF p > Len(s) THEN <<>>
  ELSE IF m[p].len > 0 THEN m[p].by \o sub_re(s, m, p + m[p].len)
  ELSE <<s[p]>> \o sub_re(s, m, p + 1)

\* ^quote(?=punct_pattern\\B): the lookahead asks for a punctuation mark, a
\* backslash and the letter B
FirstQuoteClosed(s, quote, by) ==
  IF At(s, 1) = quote /\ At(s, 2) \in Punct /\ At(s, 3) = "\\" /\ At(s, 4) = "B"
  THEN <<by>> \o Tail(s)
  ELSE s

\* a pair of quotes before a word character
PairOpened(s, pair, by) ==
  sub_re(s, [p \in 1..Len(s) |->
               IF HasAt(s, p, pair) /\ IsWord(At(s, p + 2)) THEN Match(2, by) ELSE NoMatch], 1)

\* (?<=\W)'(?=\d{2}s)
DecadeClosed(s) ==
  sub_re(s, [p \in 1..Len(s) |->
               IF /\ s[p] = "'"
                  /\ At(s, p - 1) # "" /\ ~IsWord(At(s, p - 1))
                  /\ At(s, p + 1) \in Digits /\ At(s, p + 2) \in Digits /\ At(s, p + 3) = "s"
               THEN Match(1, <<RightSingle>>) ELSE NoMatch], 1)

\* (opener)quote(?=\w)
QuoteOpened(s, quote, by) ==
  sub_re(s, [p \in 1..Len(s) |->
               LET fits == {a \in Openers : /\ HasAt(s, p, a)
                                            /\ At(s, p + Len(a)) = quote
                                            /\ IsWord(At(s, p + Len(a) + 1))}
               IN IF fits = {} THEN NoMatch
                  ELSE LET a == CHOOSE a \in fits : TRUE
                       IN Match(Len(a) + 1, a \o <<by>>)], 1)

\* (close_pattern_no_leading_single_quotes)'(?!\s | s\b | \d | ')
SingleClosedInWord(s) ==
  sub_re(s, [p \in 1..Len(s) |->
               IF /\ IsCloseNoQuote(s[p])
                  /\ At(s, p + 1) = "'"
                  /\ ~ \/ At(s, p + 2) \in WhiteSpace
                       \/ At(s, p + 2) = "s" /\ WordBoundary(s, p + 2)
                       \/ At(s, p + 2) \in Digits
                       \/ At(s, p + 2) = "'"
               THEN Match(2, <<s[p], RightSingle>>) ELSE NoMatch], 1)

\* (close_pattern)'(\s | s\b)
SingleClosedAtEnd(s) ==
  sub_re(s, [p \in 1..Len(s) |->
               IF /\ IsClose(s[p])
                  /\ At(s, p + 1) = "'"
                  /\ \/ At(s, p + 2) \in WhiteSpace
                     \/ At(s, p + 2) = "s" /\ WordBoundary(s, p + 2)
               THEN Match(3, <<s[p], RightSingle, s[p + 2]>>) ELSE NoMatch], 1)

\* (?<!')'(?!')
LoneSingleOpened(s) ==
  sub_re(s, [p \in 1..Len(s) |->
               IF s[p] = "'" /\ At(s, p - 1) # "'" /\ At(s, p + 1) # "'"
               THEN Match(1, <<LeftSingle>>) ELSE NoMatch], 1)

\* "(?=\s)
DoubleClosedBeforeSpace(s) ==
  sub_re(s, [p \in 1..Len(s) |->
               IF s[p] = "\"" /\ At(s, p + 1) \in WhiteSpace
               THEN Match(1, <<RightDouble>>) ELSE NoMatch], 1)

\* (close_pattern)"
DoubleClosed(s) ==
  sub_re(s, [p \in 1..Len(s) |->
               IF IsClose(s[p]) /\ At(s, p + 1) = "\""
               THEN Match(2, <<s[p], RightDouble>>) ELSE NoMatch], 1)

\* the k-th substitution of _smartify_quotes, in the order of the source
QuoteSubstitution(k, s) ==
  CASE k = 1 -> FirstQuoteClosed(s, "'", RightSingle)
    [] k = 2 -> FirstQuoteClosed(s, "\"", RightDouble)
    [] k = 3 -> PairOpened(s, <<"\"", "'">>, <<LeftDouble, LeftSingle>>)
    [] k = 4 -> PairOpened(s, <<"'", "\"">>, <<LeftSingle, LeftDouble>>)
    [] k = 5 -> DecadeClosed(s)
    [] k = 6 -> QuoteOpened(s, "'", LeftSingle)
    [] k = 7 -> SingleClosedInWord(s)
    [] k = 8 -> SingleClosedAtEnd(s)
    [] k = 9 -> LoneSingleOpened(s)
    [] k = 10 -> QuoteOpened(s, "\"", LeftDouble)
    [] k = 11 -> DoubleClosedBeforeSpace(s)
    [] k = 12 -> DoubleClosed(s)
    [] k = 13 -> Replace(s, "\"", <<LeftDouble>>)

\* the substitutions k, k + 1, ... of _smartify_quotes, one after the other
RECURSIVE QuoteSubstitutionsFrom(_, _)
QuoteSubstitutionsFrom(k, s) ==
  IF k > 13 THEN s ELSE QuoteSubstitutionsFrom(k + 1, QuoteSubstitution(k, s))

\* _smartify_quotes
smartify_quotes(s) == QuoteSubstitutionsFrom(1, s)

\* _smartify_dashes: (?<!<!)--(?!>)
smartify_dashes(s) ==
  sub_re(s, [p \in 1..Len(s) |->
               IF /\ HasAt(s, p, <<"-", "-">>)
                  /\ ~HasAt(s, p - 2, <<"<", "!">>)
                  /\ At(s, p + 2) # ">"
               THEN Match(2, <<EmDash>>) ELSE NoMatch], 1)

\* _smartify_ellipses: (?<!\.)\.{3}(?!\.)|(?<!\. )\. \. \.(?! \.)
smartify_ellipses(s) ==
  sub_re(s, [p \in 1..Len(s) |->
               IF HasAt(s, p, <<".", ".", ".">>) /\ At(s, p - 1) # "." /\ At(s, p + 3) # "."
               THEN Match(3, <<Ellipsis>>)
               ELSE IF /\ HasAt(s, p, <<".", " ", ".", " ", ".">>)
                       /\ ~HasAt(s, p - 2, <<".", " ">>)
                       /\ ~HasAt(s, p + 5, <<" ", ".">>)
               THEN Match(5, <<Ellipsis>>) ELSE NoMatch], 1)

\* the k-th call of smartify_entities
EntitySubstitution(k, s) ==
  CASE k = 1 -> smartify_quotes(s)
    [] k = 2 -> smartify_dashes(s)
    [] k = 3 -> smartify_ellipses(s)

\* the calls k, k + 1, ... of smartify_entities, one after the other
RECURSIVE EntitySubstitutionsFrom(_, _)
EntitySubstitutionsFrom(k, s) ==
  IF k > 3 THEN s ELSE EntitySubstitutionsFrom(k + 1, EntitySubstitution(k, s))

\* smartify_entities
smartify_entities(s) == EntitySubstitutionsFrom(1, s)

(***************************************************************************)
(* modify_text of the nodes.  The function handed to modify_text is one of *)
(* the text functions the tests and the scripts use, known by its name.    *)
(***************************************************************************)
Upper(c) ==
  CASE c = "a" -> "A" [] c = "b" -> "B" [] c = "c" -> "C" [] c = "d" -> "D"
    [] c = "e" -> "E" [] c = "f" -> "F" [] c = "g" -> "G" [] c = "h" -> "H"
    [] c = "i" -> "I" [] c = "j" -> "J" [] c = "k" -> "K" [] c = "l" -> "L"
    [] c = "m" -> "M" [] c = "n" -> "N" [] c = "o" -> "O" [] c = "p" -> "P"
    [] c = "q" -> "Q" [] c = "r" -> "R" [] c = "s" -> "S" [] c = "t" -> "T"
    [] c = "u" -> "U" [] c = "v" -> "V" [] c = "w" -> "W" [] c = "x" -> "X"
    [] c = "y" -> "Y" [] c = "z" -> "Z"
    [] OTHER -> c

\* s.upper()
RECURSIVE UpperCase(_)
UpperCase(s) == IF s = <<>> THEN <<>> ELSE <<Upper(Head(s))>> \o UpperCase(Tail(s))

\* the functions passed as mod_fn
ModFns == {"upper", "single_to_double", "double_to_single"}

\* mod_fn(s)
ApplyFn(fn, s) ==
  CASE fn = "upper" -> UpperCase(s)
    [] fn = "single_to_double" -> Replace(s, "'", <<"\"">>)
    [] fn = "double_to_single" -> Replace(s, "\"", <<"'">>)
    [] fn = "smartify_entities" -> smartify_entities(s)
    [] fn = "identity" -> s

\* the index of the quote mark that closes the literal whose contents start at
\* index j of s, 0 if the pattern does not match: the contents group is lazy, a
\* backslash takes the character after it, and '.' does not match a line feed
RECURSIVE LiteralClose(_, _, _)
LiteralClose(s, j, quotemark) ==
  IF j > Len(s) THEN 0
  ELSE IF s[j] = quotemark THEN j
  ELSE IF s[j] = "\\"
       THEN IF j < Len(s) /\ s[j + 1] # LineFeed THEN LiteralClose(s, j + 2, quotemark)
            ELSE 0
  ELSE IF s[j] = LineFeed THEN 0
  ELSE LiteralClose(s, j + 1, quotemark)

\* string_re.sub(lambda match: quotemark + _escape_string(mod_fn(
\* _unescape_string(contents)), quotemark) + quotemark, item)
RECURSIVE sub_strings(_, _)
sub_strings(item, fn) ==
  IF item = <<>> THEN Decoded(<<>>)
  ELSE LET q == Head(item)
           close == IF q \in {"\"", "'"} THEN LiteralClose(item, 2, q) ELSE 0
       IN IF close = 0
          THEN LET rest == sub_strings(Tail(item), fn)
               IN IF rest.err # NoErr THEN rest ELSE Decoded(<<q>> \o rest.s)
          ELSE LET u == unescape_string(SubSeq(item, 2, close - 1))
                   rest == sub_strings(From(item, close + 1), fn)
               IN IF u.err # NoErr THEN u
                  ELSE IF rest.err # NoErr THEN rest
                  ELSE Decoded(<<q>> \o escape_string(ApplyFn(fn, u.s), q) \o <<q>> \o rest.s)

\* what a modify_text call leaves: the node as it is after the call (the call
\* returns self) and the exception it raised, if any
Modified(node) == [err |-> NoErr, node |-> node]

ModifiedErr(e, node) == [err |-> e, node |-> node]

\* what a list comprehension over the children leaves: the list it builds (to be
\* assigned) and, when an item raises, the old list with the nodes changed so far
Comprehended(assigned, inplace) == [err |-> NoErr, assigned |-> assigned, inplace |-> inplace]

ComprehendedErr(e, inplace) == [err |-> e, assigned |-> <<>>, inplace |-> inplace]

RECURSIVE NodeModifyText(_, _)
RECURSIVE ListModifyText(_, _, _)

\* [mod_fn(item) if isinstance(item, text_type) else item.modify_text(mod_fn)
\*  for item in l], and with in_code the loop of HarloweMacro.modify_text
ListModifyText(l, fn, in_code) ==
  IF l = <<>> THEN Comprehended(<<>>, <<>>)
  ELSE LET item == Head(l)
           text == IF in_code THEN sub_strings(item.s, fn) ELSE Decoded(ApplyFn(fn, item.s))
           new == IF item.k = "Text"
                  THEN IF text.err = NoErr THEN Modified(Text(text.s))
                       ELSE ModifiedErr(text.err, item)
                  ELSE NodeModifyText(item, fn)
           kept == IF item.k = "Text" THEN item ELSE new.node
       IN IF new.err # NoErr THEN ComprehendedErr(new.err, <<kept>> \o Tail(l))
          ELSE LET rest == ListModifyText(Tail(l), fn, in_code)
               IN IF rest.err # NoErr THEN ComprehendedErr(rest.err, <<kept>> \o rest.inplace)
                  ELSE Comprehended(<<new.node>> \o rest.assigned, <<kept>> \o rest.inplace)

\* HarloweVariable.modify_text
VariableModifyText(n, fn) == Modified(n)

\* a hook modify_text that transforms the nametag as well
HookModifyTextAndTag(n, fn) ==
  LET r == ListModifyText(n.hook, fn, FALSE)
  IN IF r.err # NoErr THEN ModifiedErr(r.err, [n EXCEPT !.hook = r.inplace])
     ELSE Modified([n EXCEPT !.hook = r.assigned, !.nametag = ApplyFn(fn, n.nametag)])

\* HarloweHook.modify_text
HookModifyText(n, fn) ==
  LET r == ListModifyText(n.hook, fn, FALSE)
  IN IF r.err # NoErr THEN ModifiedErr(r.err, [n EXCEPT !.hook = r.inplace])
     ELSE Modified([n EXCEPT !.hook = r.assigned])

\* a link modify_text that transforms the link text whether or not the link has
\* a passage name
LinkModifyTextAlways(n, fn) ==
  LET r == ListModifyText(n.link_text, fn, FALSE)
  IN IF r.err # NoErr THEN ModifiedErr(r.err, [n EXCEPT !.link_text = r.inplace])
     ELSE Modified([n EXCEPT !.link_text = r.assigned])

\* HarloweLink.modify_text: "if self.passage_name" is false for None and for []
LinkModifyText(n, fn) ==
  LET r == ListModifyText(n.link_text, fn, FALSE)
  IN IF n.passage_name = <<>> THEN Modified(n)
     ELSE IF r.err # NoErr THEN ModifiedErr(r.err, [n EXCEPT !.link_text = r.inplace])
     ELSE Modified([n EXCEPT !.link_text = r.assigned])

\* a macro modify_text that transforms the name of the macro as well
MacroModifyTextRenames(n, fn) ==
  LET r == ListModifyText(n.code, fn, TRUE)
  IN IF r.err # NoErr THEN ModifiedErr(r.err, [n EXCEPT !.code = r.inplace])
     ELSE Modified(IF n.name_in_source.k = "Text"
                   THEN HarloweMacro(Text(ApplyFn(fn, n.name_in_source.s)), r.assigned)
                   ELSE [n EXCEPT !.code = r.assigned])

\* HarloweMacro.modify_text
MacroModifyText(n, fn) ==
  LET r == ListModifyText(n.code, fn, TRUE)
  IN IF r.err # NoErr THEN ModifiedErr(r.err, [n EXCEPT !.code = r.inplace])
     ELSE Modified([n EXCEPT !.code = r.assigned])

\* item.modify_text(mod_fn)
NodeModifyText(n, fn) ==
  CASE n.k = "Variable" -> VariableModifyText(n, fn)
    [] n.k = "Hook" -> HookModifyText(n, fn)
    [] n.k = "Link" -> LinkModifyText(n, fn)
    [] n.k = "Macro" -> MacroModifyText(n, fn)

(***************************************************************************)
(* The passage object (class HarlowePassage) as a state machine.           *)
(***************************************************************************)
VARIABLES
  pid,              \* self.pid
  name,             \* self.name
  tags,             \* self.tags
  position,         \* self.position
  contents,         \* self.contents
  parsed_contents,  \* self.parsed_contents: [none |-> TRUE] is None
  op,               \* the last call made on the passage
  raised,           \* the exception that call raised (NoErr: it returned)
  out,              \* the value of the last str(passage) that returned
  parsed_from,      \* history: the contents the last parse_contents() read
  edits,            \* history: the number of assignments to contents so far
  mod_fn,           \* the function the last modify_text call was given
  mods,             \* history: the number of modify_text calls so far
  passages,         \* the mapping of check_story_links.py, in insertion order
  bad_passages,     \* what harlowe.build_link_graph(passages) returned
  regex_cache,      \* helper_functions._regex_cache: key -> compiled regex
  regex,            \* the value the last compile_re call returned
  requested         \* history: the arguments of the last compile_re call

vars == <<pid, name, tags, position, contents, parsed_contents, op, raised, out,
          parsed_from, edits, mod_fn, mods, passages, bad_passages,
          regex_cache, regex, requested>>

\* the regex cache and the history of its last call
cacheVars == <<regex_cache, regex, requested>>

\* _regex_cache = dict()
EmptyCache == [key \in {} |-> <<>>]

\* compile_re has not been called yet
NoRegex == [none |-> TRUE, pattern |-> <<>>, flags |-> 0]

\* build_link_graph has not returned yet
NotChecked == [none |-> TRUE, reports |-> <<>>]

\* parsed_contents = None (the class attribute)
NotParsed == [none |-> TRUE, toks |-> <<>>]

ParsedAs(toks) == [none |-> FALSE, toks |-> toks]

\* no str(passage) has returned yet
NoOut == [pid |-> <<>>, name |-> <<>>, tags |-> <<>>, position |-> <<>>, inner |-> <<>>]

\* a __str__ that takes the parsed contents only when the list is not empty or
\* the raw contents are: "is not None" replaced by the contents being unchanged
PassageInnerRawFirst(pc, c) ==
  IF c # <<>> THEN StrOk(escape_harlowe_html(c))
  ELSE IF pc.toks # <<>> THEN escape_list(pc.toks)
  ELSE StrOk(<<>>)

\* the text __str__ puts between the two passage tags: "if self.parsed_contents"
\* is false for None and for the empty list
PassageInner(pc, c) ==
  IF pc.toks # <<>> THEN escape_list(pc.toks)
  ELSE IF c # <<>> THEN StrOk(escape_harlowe_html(c))
  ELSE StrOk(<<>>)

\* the five values HarlowePassage.__str__ writes: the opening tag's format
\* string takes self.pid and self.position as they are
PassageStr(inner) ==
  [pid |-> pid, name |-> escape_harlowe_html(name), tags |-> escape_harlowe_html(tags),
   position |-> position, inner |-> inner]

\* str(passage)
Str ==
  /\ op' = "str"
  /\ \E inner \in {PassageInner(parsed_contents, contents)} :
       /\ raised' = inner.err
       /\ out' = IF inner.err = NoErr THEN PassageStr(inner.s) ELSE out
  /\ UNCHANGED <<pid, name, tags, position, contents, parsed_contents,
                 parsed_from, edits, mod_fn, mods, passages, bad_passages, cacheVars>>

\* a parse_contents that parses only a passage that has no tree yet
ParseContentsOnce ==
  /\ op' = "parse_contents"
  /\ \E r \in {IF parsed_contents.none THEN tokenize(contents, NoStopPattern)
                ELSE Tokenized(parsed_contents.toks, <<>>, <<>>)} :
       /\ raised' = r.err
       /\ parsed_contents' = IF r.err = NoErr THEN ParsedAs(r.toks) ELSE parsed_contents
       /\ parsed_from' = IF r.err = NoErr /\ parsed_contents.none THEN contents ELSE parsed_from
  /\ UNCHANGED <<pid, name, tags, position, contents, out, edits, mod_fn, mods,
                 passages, bad_passages, cacheVars>>

\* passage.parse_contents(): an exception of tokenize leaves the attribute as it was
ParseContents ==
  /\ op' = "parse_contents"
  /\ \E r \in {tokenize(contents, NoStopPattern)} :
       /\ raised' = r.err
       /\ parsed_contents' = IF r.err = NoErr THEN ParsedAs(r.toks) ELSE parsed_contents
       /\ parsed_from' = IF r.err = NoErr THEN contents ELSE parsed_from
  /\ UNCHANGED <<pid, name, tags, position, contents, out, edits, mod_fn, mods,
                 passages, bad_passages, cacheVars>>

\* the number of assignments to contents a behaviour makes
MaxEdits == 1

\* the text an assignment appends (passage_obj.contents += 'extra text')
ExtraText == <<"x">>

\* passage.contents += extra
SetContents ==
  /\ edits < MaxEdits
  /\ contents' = contents \o ExtraText
  /\ edits' = edits + 1
  /\ op' = "set_contents"
  /\ raised' = NoErr
  /\ UNCHANGED <<pid, name, tags, position, parsed_contents, out, parsed_from,
                 mod_fn, mods, passages, bad_passages, cacheVars>>

\* the number of modify_text calls a behaviour makes
MaxMods == 2

\* no modify_text call has been made yet
NoFn == "none"

\* passage.modify_text(mod_fn): "if not self.parsed_contents" parses when the
\* attribute is None and when it is the empty list; an exception of an item
\* leaves the attribute the list it was, with the nodes changed until then
ModifyText(fn) ==
  LET parses == parsed_contents.toks = <<>>
  IN /\ mods < MaxMods
     /\ mods' = mods + 1
     /\ mod_fn' = fn
     /\ op' = "modify_text"
     /\ \E r \in {IF parses THEN tokenize(contents, NoStopPattern)
                   ELSE Tokenized(parsed_contents.toks, <<>>, <<>>)} :
          IF r.err # NoErr
          THEN /\ raised' = r.err
               /\ UNCHANGED <<parsed_contents, parsed_from>>
          ELSE \E m \in {ListModifyText(r.toks, fn, FALSE)} :
                 /\ raised' = m.err
                 /\ parsed_contents' = ParsedAs(IF m.err = NoErr THEN m.assigned ELSE m.inplace)
                 /\ parsed_from' = IF parses THEN contents ELSE parsed_from
     /\ UNCHANGED <<pid, name, tags, position, contents, out, edits, passages, bad_passages, cacheVars>>

Next == ParseContents \/ Str \/ SetContents

\* the calls of a passage that is parsed, transformed, assigned and parsed again
ReparseNext == ParseContents \/ Str \/ SetContents \/ \E fn \in ModFns : ModifyText(fn)

\* the calls of a passage whose text is transformed
ModifyNext == ParseContents \/ Str \/ \E fn \in ModFns : ModifyText(fn)

\* the calls of smartify_story_entities.py on a passage
SmartNext == ParseContents \/ Str \/ ModifyText("smartify_entities")

\* the calls of a passage whose contents are never assigned again
ParseNext == ParseContents \/ Str

\* the attributes HarlowePassage.__init__ sets
PassageFields(p, n, c, t, pos) ==
  /\ pid = p
  /\ name = n
  /\ contents = c
  /\ tags = t
  /\ position = pos
  /\ parsed_contents = NotParsed
  /\ op = "new"
  /\ raised = NoErr
  /\ out = NoOut
  /\ parsed_from = <<>>
  /\ edits = 0
  /\ mod_fn = NoFn
  /\ mods = 0
  /\ regex_cache = EmptyCache
  /\ regex = NoRegex
  /\ requested = NoRegex

\* HarlowePassage(pid, name, contents, tags, position), no mapping built
NewPassage(p, n, c, t, pos) ==
  /\ PassageFields(p, n, c, t, pos)
  /\ passages = <<>>
  /\ bad_passages = NotChecked

(***************************************************************************)
(* harlowe.build_link_graph, which check_story_links.py calls on the       *)
(* mapping of the passages of a story.  The mapping is the sequence of its *)
(* records [name, contents, parsed_contents] in insertion order.           *)
(***************************************************************************)
\* the canonical names of the macros that navigate to a passage
NavigationMacros == {<<"g", "o", "t", "o">>, <<"d", "i", "s", "p", "l", "a", "y">>}

\* the text of the Text nodes of a sequence of nodes, joined
RECURSIVE TextOf(_)
TextOf(l) ==
  IF l = <<>> THEN <<>>
  ELSE (IF Head(l).k = "Text" THEN Head(l).s ELSE <<>>) \o TextOf(Tail(l))

\* the passage a link leads to: its passage name, or its text when it has none
LinkTarget(n) == IF n.has_passage_name THEN TextOf(n.passage_name) ELSE TextOf(n.link_text)

\* the contents of the first quoted literal of a code text, none: no literal
FirstLiteral(s) ==
  LET opens == {i \in 1..Len(s) : s[i] \in {"\"", "'"} /\ LiteralClose(s, i + 1, s[i]) > 0}
  IN IF opens = {} THEN [none |-> TRUE, s |-> <<>>]
     ELSE LET i == Min(opens)
          IN [none |-> FALSE, s |-> SubSeq(s, i + 1, LiteralClose(s, i + 1, s[i]) - 1)]

\* the passages a macro leads to: the first literal of the code of a goto or a
\* display macro
MacroTargets(n) ==
  IF n.canonical_name.k = "Text" /\ n.canonical_name.s \in NavigationMacros
  THEN LET lit == FirstLiteral(TextOf(n.code))
       IN IF lit.none THEN <<>> ELSE <<lit.s>>
  ELSE <<>>

\* a walk that visits the links only
RECURSIVE walk_links_only(_)
walk_links_only(l) ==
  IF l = <<>> THEN <<>>
  ELSE LET n == Head(l)
       IN (CASE n.k = "Link" -> <<LinkTarget(n)>> \o walk_links_only(n.link_text)
                                  \o walk_links_only(n.passage_name)
             [] n.k = "Hook" -> walk_links_only(n.hook)
             [] n.k = "Macro" -> walk_links_only(n.code)
             [] OTHER -> <<>>)
          \o walk_links_only(Tail(l))

\* the passage names a tree refers to, in the order in which a pre-order walk,
\* left to right, meets its links and its navigation macros
RECURSIVE walk(_)
walk(l) ==
  IF l = <<>> THEN <<>>
  ELSE LET n == Head(l)
       IN (CASE n.k = "Link" -> <<LinkTarget(n)>> \o walk(n.link_text) \o walk(n.passage_name)
             [] n.k = "Hook" -> walk(n.hook)
             [] n.k = "Macro" -> MacroTargets(n) \o walk(n.code)
             [] OTHER -> <<>>)
          \o walk(Tail(l))

\* the names of the mapping
Keys(ps) == {ps[i].name : i \in 1..Len(ps)}

\* what parsing the records that are not parsed yet gives, one result for each
\* record of the mapping
LazilyParsed(ps) ==
  [i \in 1..Len(ps) |->
     IF ps[i].parsed_contents.none THEN tokenize(ps[i].contents, NoStopPattern)
     ELSE Tokenized(ps[i].parsed_contents.toks, <<>>, <<>>)]

\* the reports of the records from index i on, trees being their parsed trees:
\* the name of the record and the names it refers to that are no key of the
\* mapping
RECURSIVE build_link_graph(_, _, _)
build_link_graph(ps, trees, i) ==
  IF i > Len(ps) THEN <<>>
  ELSE LET Unresolved(t) == t \notin Keys(ps)
           missing == SelectSeq(walk(trees[i]), Unresolved)
       IN (IF missing = <<>> THEN <<>> ELSE <<[name |-> ps[i].name, missing |-> missing]>>)
          \o build_link_graph(ps, trees, i + 1)

\* passages[name].parse_contents(), before the mapping is checked
ParseRecord(i) ==
  /\ passages[i].parsed_contents.none
  /\ op' = "parse_contents"
  /\ \E r \in {tokenize(passages[i].contents, NoStopPattern)} :
       /\ raised' = r.err
       /\ passages' = IF r.err = NoErr
                       THEN [passages EXCEPT ![i].parsed_contents = ParsedAs(r.toks)]
                       ELSE passages
  /\ UNCHANGED <<pid, name, tags, position, contents, parsed_contents, out,
                    parsed_from, edits, mod_fn, mods, bad_passages, cacheVars>>

\* bad_passages = harlowe.build_link_graph(passages)
BuildLinkGraph ==
  /\ op' = "build_link_graph"
  /\ \E parsed \in {LazilyParsed(passages)} :
       LET unparsable == {i \in 1..Len(passages) : parsed[i].err # NoErr}
           trees == [i \in 1..Len(passages) |-> parsed[i].toks]
       IN IF unparsable # {}
          THEN /\ raised' = parsed[Min(unparsable)].err
               /\ UNCHANGED <<passages, bad_passages>>
          ELSE /\ raised' = NoErr
               /\ passages' = [i \in 1..Len(passages) |->
                                 [passages[i] EXCEPT !.parsed_contents = ParsedAs(trees[i])]]
               /\ bad_passages' = [none |-> FALSE,
                                   reports |-> build_link_graph(passages, trees, 1)]
  /\ UNCHANGED <<pid, name, tags, position, contents, parsed_contents, out,
                 parsed_from, edits, mod_fn, mods, cacheVars>>

\* the most entries the cache holds in the runs
MaxCacheEntries == 3

\* str(flags) of an int: its decimal digits
RECURSIVE Decimal(_)
Decimal(n) ==
  LET digit == <<"0", "1", "2", "3", "4", "5", "6", "7", "8", "9">>[(n % 10) + 1]
  IN IF n < 10 THEN <<digit>> ELSE Decimal(n \div 10) \o <<digit>>

\* re.compile(pattern, flags)
Compile(pattern, flags) == [none |-> FALSE, pattern |-> pattern, flags |-> flags]

\* the key of the cache entry: pattern+str(flags)
CacheKey(pattern, flags) == pattern \o Decimal(flags)

\* regex = compile_re(pattern, flags)
CompileRe(pattern, flags) ==
  /\ op' = "compile_re"
  /\ raised' = NoErr
  /\ requested' = Compile(pattern, flags)
  /\ \E key \in {CacheKey(pattern, flags)} :
       IF key \in DOMAIN regex_cache
       THEN /\ regex' = regex_cache[key]
            /\ UNCHANGED regex_cache
       ELSE /\ Cardinality(DOMAIN regex_cache) < MaxCacheEntries
            /\ regex' = Compile(pattern, flags)
            /\ regex_cache' = [k \in DOMAIN regex_cache \cup {key} |->
                                 IF k = key THEN Compile(pattern, flags)
                                 ELSE regex_cache[k]]
  /\ UNCHANGED <<pid, name, tags, position, contents, parsed_contents, out,
                 parsed_from, edits, mod_fn, mods, passages, bad_passages>>

\* the calls of check_story_links.py
StoryNext == (\E i \in 1..Len(passages) : ParseRecord(i)) \/ BuildLinkGraph

(***************************************************************************)
(* Bounded sets of strings.                                                *)
(***************************************************************************)
\* all strings of length at most n over the characters of A
StringsUpTo(A, n) == UNION {[1..k -> A] : k \in 0..n}

\* the concatenation of a sequence of strings
RECURSIVE Concat(_)
Concat(ss) == IF ss = <<>> THEN <<>> ELSE Head(ss) \o Concat(Tail(ss))

\* all concatenations of at most n pieces of F
PiecesUpTo(F, n) == {Concat(ss) : ss \in StringsUpTo(F, n)}

(***************************************************************************)
(* Passages whose attribute values hold the characters the codec escapes.  *)
(***************************************************************************)
MaxAttrLen == 2

AttrChars == {"&", "<", ">", "\"", "'", "a", ";"}

\* names that already hold the text of an entity
EntityLikeNames == {<<"&", "l", "t", ";">>, <<"&", "a", "m", "p", ";", "<">>}

AttrInit ==
  \E n \in StringsUpTo(AttrChars, MaxAttrLen) \cup EntityLikeNames,
     p \in {<<"1">>, <<"\"", "1">>},
     t \in {<<>>, <<"t", "<">>},
     c \in {<<>>, <<"a", "&">>} :
    NewPassage(p, n, c, t, <<"1", ",", "2">>)

AttrSpec == AttrInit /\ [][Next]_vars

\* the attribute values of the passages whose contents are what varies
PlainPassage(c) == NewPassage(<<"1">>, <<"n">>, c, <<>>, <<"1", ",", "2">>)

(***************************************************************************)
(* Passages whose contents are made of well-formed constructs only: text,  *)
(* variables, links, terminated hooks and terminated macros, nested.       *)
(***************************************************************************)
Atoms == {<<"a">>, <<"$", "v">>}

\* the constructs that enclose one body
Enclose(g) ==
  { <<"[">> \o g \o <<"]">>,
    <<"|", "t", ">", "[">> \o g \o <<"]">>,
    <<"[">> \o g \o <<"]", "<", "t", "|">>,
    <<"[", "[">> \o g \o <<"]", "]">>,
    <<"(", "m", ":">> \o g \o <<")">>,
    <<"(", "$", "v", ":">> \o g \o <<")">> }

\* the links with an arrow
ArrowLinks(g, h) ==
  { <<"[", "[">> \o g \o <<"-", ">">> \o h \o <<"]", "]">>,
    <<"[", "[">> \o g \o <<"<", "-">> \o h \o <<"]", "]">> }

Constructs1 ==
  UNION {Enclose(g) : g \in Atoms \cup {<<>>}}
    \cup UNION {ArrowLinks(g, h) : g \in Atoms, h \in Atoms}

Constructs2 == UNION {Enclose(g) : g \in Constructs1}

\* the number of constructs put side by side
MaxItems == 2

RoundTripInit ==
  \E c \in PiecesUpTo(Atoms \cup Constructs1, MaxItems) \cup Constructs2 : PlainPassage(c)

RoundTripSpec == RoundTripInit /\ [][ParseNext]_vars

(***************************************************************************)
(* Passages whose contents are one link: [[side]], [[side->side]] or       *)
(* [[side<-side]], each side made of well-formed pieces.                   *)
(***************************************************************************)
SidePieces ==
  {<<"a">>, <<"'">>, <<"$", "v">>, <<"(", "m", ":", "a", ")">>, <<"(", "$", "v", ":", ")">>}

MaxSidePieces == 2

Sides == PiecesUpTo(SidePieces, MaxSidePieces) \ {<<>>}

LinkInit ==
  \E l \in Sides, r \in Sides, form \in {"contents", "right", "left"} :
    PlainPassage(CASE form = "contents" -> <<"[", "[">> \o l \o <<"]", "]">>
                   [] form = "right" -> <<"[", "[">> \o l \o <<"-", ">">> \o r \o <<"]", "]">>
                   [] form = "left" -> <<"[", "[">> \o l \o <<"<", "-">> \o r \o <<"]", "]">>)

LinkSpec == LinkInit /\ [][ParseNext]_vars

(***************************************************************************)
(* Passages whose contents are one link whose body is made of arrows and   *)
(* plain text.                                                             *)
(***************************************************************************)
ArrowPieces == {<<"a">>, <<"b">>, <<"-", ">">>, <<"<", "-">>}

MaxArrowPieces == 5

ArrowInit ==
  \E body \in PiecesUpTo(ArrowPieces, MaxArrowPieces) :
    PlainPassage(<<"[", "[">> \o body \o <<"]", "]">>)

ArrowSpec == ArrowInit /\ [][ParseNext]_vars

(***************************************************************************)
(* Passages whose contents are one terminated hook, anonymous or with a    *)
(* nametag on one side.                                                    *)
(***************************************************************************)
\* nametags that _HOOK_NAME_PATTERN accepts
Nametags == {<<>>, <<"t">>, <<"t", "-", "1">>, <<"_">>}

HookBodyPieces == {<<"a">>, <<"'">>, <<"$", "v">>}

MaxHookPieces == 2

HookInit ==
  \E body \in PiecesUpTo(HookBodyPieces, MaxHookPieces), tag \in Nametags,
     side \in {"none", "left", "right"} :
    PlainPassage(CASE side = "none" -> <<"[">> \o body \o <<"]">>
                   [] side = "left" -> <<"|">> \o tag \o <<">", "[">> \o body \o <<"]">>
                   [] side = "right" -> <<"[">> \o body \o <<"]", "<">> \o tag \o <<"|">>)

HookSpec == HookInit /\ [][ParseNext]_vars

(***************************************************************************)
(* Passages whose contents are one macro closed by ')' and what follows    *)
(* the closing paren.                                                      *)
(***************************************************************************)
MacroNames == {<<"m">>, <<"m", "-", "t">>, <<"M", "_", "1">>, <<"$", "v">>}

MacroCodePieces == {<<"a">>, <<"\"">>}

MaxCodePieces == 1

AfterMacroPieces == {<<"[">>, <<"]">>, <<"x">>}

MaxAfterPieces == 5

MacroInit ==
  \E n \in MacroNames, code \in PiecesUpTo(MacroCodePieces, MaxCodePieces),
     after \in PiecesUpTo(AfterMacroPieces, MaxAfterPieces) :
    PlainPassage(<<"(">> \o n \o <<":">> \o code \o <<")">> \o after)

MacroSpec == MacroInit /\ [][ParseNext]_vars

(***************************************************************************)
(* Passages whose contents open with two brackets.                         *)
(***************************************************************************)
BracketPieces == {<<"a">>, <<"[">>, <<"]">>, <<" ">>}

MaxBracketPieces == 5

BracketInit ==
  \E rest \in PiecesUpTo(BracketPieces, MaxBracketPieces) :
    PlainPassage(<<"[", "[">> \o rest)

BracketSpec == BracketInit /\ [][ParseNext]_vars

(***************************************************************************)
(* Passages whose contents are one macro, its name written with capitals,  *)
(* hyphens and underscores or as a variable, and whose text is transformed.*)
(***************************************************************************)
WrittenNames ==
  {<<"m">>, <<"M", "-", "t">>, <<"g", "o", "-", "t", "o">>, <<"-", "A", "_", "_", "1">>,
   <<"/", "T", "_">>, <<"$", "v">>, <<"$", "M", "_", "1">>}

NamedCodePieces == {<<"\"", "a", "-", "_", "\"">>, <<" ">>, <<"T", "-">>, <<"$", "v">>}

MaxNamedCodePieces == 2

NameInit ==
  \E n \in WrittenNames, code \in PiecesUpTo(NamedCodePieces, MaxNamedCodePieces) :
    PlainPassage(<<"(">> \o n \o <<":">> \o code \o <<")">>)

NameSpec == NameInit /\ [][ModifyNext]_vars

(***************************************************************************)
(* Passages whose contents are one navigation macro, (goto: ...) or        *)
(* (display: ...) under any spelling of the name, and whose text is        *)
(* transformed.                                                            *)
(***************************************************************************)
NavigationNames ==
  {<<"g", "o", "t", "o">>, <<"g", "o", "-", "t", "o">>, <<"G", "o", "_", "T", "o">>,
   <<"d", "i", "s", "p", "l", "a", "y">>, <<"D", "i", "s", "p", "l", "a", "y">>}

NavigationCodePieces == {<<"\"", "a", "'", "s", "\"">>, <<"'", "a", "'">>, <<" ">>, <<"+">>}

MaxNavigationPieces == 2

NavigationInit ==
  \E n \in NavigationNames,
     code \in PiecesUpTo(NavigationCodePieces, MaxNavigationPieces) :
    PlainPassage(<<"(">> \o n \o <<":">> \o code \o <<")">>)

NavigationSpec == NavigationInit /\ [][ModifyNext]_vars

(***************************************************************************)
(* Passages whose contents are one macro whose code holds quote marks,     *)
(* backslashes, line breaks and macros, and whose text is transformed.     *)
(***************************************************************************)
LiteralPieces ==
  {<<"\"">>, <<"'">>, <<"\\">>, <<"z">>, <<LineFeed>>, <<"(", "n", ":", "'", "z", "'", ")">>}

MaxLiteralPieces == 4

LiteralInit ==
  \E code \in PiecesUpTo(LiteralPieces, MaxLiteralPieces) :
    PlainPassage(<<"(", "m", ":">> \o code \o <<")">>)

LiteralSpec == LiteralInit /\ [][ModifyNext]_vars

(***************************************************************************)
(* Passages whose contents are one link, hook or variable, with text,      *)
(* variables, hooks, links and macros nested in it, and whose text is      *)
(* transformed.                                                            *)
(***************************************************************************)
TreePieces ==
  {<<"z">>, <<"'">>, <<"$", "v">>, <<"[", "z", "]">>,
   <<"(", "m", ":", "\"", "z", "\"", ")">>, <<"[", "[", "z", "-", ">", "p", "]", "]">>}

MaxTreePieces == 2

TreeInit ==
  \E inner \in PiecesUpTo(TreePieces, MaxTreePieces) :
    \E written \in {<<"[", "[">> \o inner \o <<"-", ">", "p", "]", "]">>,
                    <<"[", "[", "p", "<", "-">> \o inner \o <<"]", "]">>,
                    <<"[", "[">> \o inner \o <<"]", "]">>,
                    <<"[">> \o inner \o <<"]">>,
                    <<"|", "t", ">", "[">> \o inner \o <<"]">>,
                    <<"[">> \o inner \o <<"]", "<", "t", "|">>,
                    <<"$", "v">> \o inner} :
      PlainPassage(written)

TreeSpec == TreeInit /\ [][ModifyNext]_vars

(***************************************************************************)
(* Passages whose contents are a run of markup characters, closed or not,  *)
(* bare or inside two or three brackets.                                   *)
(***************************************************************************)
MergePieces ==
  {<<"a">>, <<"[">>, <<"]">>, <<"|">>, <<"$">>, <<"(">>, <<"(", "a", ":">>, <<")">>}

MaxMergePieces == 3

MergeInit ==
  \E rest \in PiecesUpTo(MergePieces, MaxMergePieces) :
    \E written \in {rest, <<"[", "[">> \o rest \o <<"]", "]">>, <<"[", "[", "[">> \o rest,
                    <<"[", "[", "[">> \o rest \o <<"]", "]", "]">>} :
      PlainPassage(written)

MergeSpec == MergeInit /\ [][ParseNext]_vars

(***************************************************************************)
(* Passages whose contents are HTML tags and plain text.                   *)
(***************************************************************************)
HtmlPieces ==
  {<<"<", "a", ">">>, <<"<", "/", "a", ">">>, <<"<", "a", " ", "/", ">">>, <<"z">>}

MaxHtmlPieces == 4

HtmlInit == \E written \in PiecesUpTo(HtmlPieces, MaxHtmlPieces) : PlainPassage(written)

HtmlSpec == HtmlInit /\ [][ParseNext]_vars

(***************************************************************************)
(* Passages of plain text with straight quotes, whose text is handed to    *)
(* smartify_entities.                                                      *)
(***************************************************************************)
SmartChars == {"'", "\"", "a", "s", " ", "1"}

MaxSmartLen == 4

SmartInit == \E written \in StringsUpTo(SmartChars, MaxSmartLen) : PlainPassage(written)

SmartSpec == SmartInit /\ [][SmartNext]_vars

(***************************************************************************)
(* Passages whose contents open a hook, with or without a nametag, that no *)
(* ']' closes.                                                             *)
(***************************************************************************)
HookOpenings == {<<"[">>, <<"|", "t", ">", "[">>, <<"|", ">", "[">>}

UnclosedPieces ==
  {<<"a">>, <<"$", "v">>, <<"(", "m", ":">>, <<")">>, <<"[">>, <<"<">>, <<"|">>, <<Backtick>>}

MaxUnclosedPieces == 3

UnclosedInit ==
  \E opening \in HookOpenings, rest \in PiecesUpTo(UnclosedPieces, MaxUnclosedPieces) :
    PlainPassage(opening \o rest)

UnclosedSpec == UnclosedInit /\ [][ParseNext]_vars

(***************************************************************************)
(* Passages whose contents are a run of three or more '[' followed by as   *)
(* many hook bodies, each closed by ']' or by ']' and a nametag, and by    *)
(* nothing or a letter.                                                    *)
(***************************************************************************)
RunBodies == {<<>>, <<"a">>, <<"$", "v">>}

RunCloses == {<<"]">>, <<"]", "<", "t", "|">>, <<"]", "<", "d", "-", "1", "|">>}

MaxRun == 3

\* body and close of each level, the innermost first
RunLevels(k) == [1..k -> {b \o c : b \in RunBodies, c \in RunCloses}]

RunInit ==
  \E k \in 3..MaxRun :
    \E levels \in RunLevels(k), trailing \in {<<>>, <<"x">>} :
      PlainPassage([i \in 1..k |-> "["] \o Concat(levels) \o trailing)

RunSpec == RunInit /\ [][ParseNext]_vars

(***************************************************************************)
(* Passages of text, quote marks, variables, hooks, links and macros that  *)
(* are parsed, transformed, assigned and parsed again in any order.        *)
(***************************************************************************)
ReparsePieces ==
  {<<"z">>, <<"'">>, <<"$", "v">>, <<"[", "z", "]">>,
   <<"(", "m", ":", "\"", "z", "\"", ")">>, <<"[", "[", "z", "-", ">", "p", "]", "]">>}

MaxReparsePieces == 2

ReparseInit ==
  \E written \in PiecesUpTo(ReparsePieces, MaxReparsePieces) : PlainPassage(written)

ReparseSpec == ReparseInit /\ [][ReparseNext]_vars

(***************************************************************************)
(* Passages whose contents hold the characters of the stop tokens, arrows, *)
(* a variable and an unterminated macro, bare or inside a link.            *)
(***************************************************************************)
RemainderPieces ==
  {<<"a">>, <<")">>, <<"]">>, <<"-", ">">>, <<"<", "-">>, <<"$", "v">>, <<"(", "a", ":">>}

MaxRemainderPieces == 3

RemainderInit ==
  \E rest \in PiecesUpTo(RemainderPieces, MaxRemainderPieces) :
    \E written \in {rest, <<"[", "[">> \o rest \o <<"]", "]">>} : PlainPassage(written)

RemainderSpec == RemainderInit /\ [][ParseNext]_vars

(***************************************************************************)
(* Passages whose contents are made of the start tokens, the stop tokens,  *)
(* a macro name and a letter.                                              *)
(***************************************************************************)
TerminationPieces ==
  {<<"a">>, <<"[">>, <<"]">>, <<"[", "[">>, <<"]", "]">>, <<"[", "[", "[">>, <<"|">>, <<"$">>,
   <<"(", "a", ":">>, <<")">>, <<Backtick>>, <<"<">>}

MaxTerminationPieces == 3

TerminationInit ==
  \E written \in PiecesUpTo(TerminationPieces, MaxTerminationPieces) : PlainPassage(written)

TerminationSpec == TerminationInit /\ [][ParseNext]_vars

(***************************************************************************)
(* Passages whose contents are made of grave accents, letters and an       *)
(* opening bracket.                                                        *)
(***************************************************************************)
VerbatimPieces == {<<Backtick>>, <<"a">>, <<"b">>, <<"[">>}

MaxVerbatimPieces == 5

VerbatimInit ==
  \E written \in PiecesUpTo(VerbatimPieces, MaxVerbatimPieces) : PlainPassage(written)

VerbatimSpec == VerbatimInit /\ [][ParseNext]_vars

(***************************************************************************)
(* Stories of a few passages that refer to each other, and to a passage    *)
(* that is never there, by links and by macros.                            *)
(***************************************************************************)
StoryNames == {<<"A">>, <<"D">>, <<"M">>}

StoryContents ==
  {<<"a">>,
   <<"[", "[", "D", "]", "]">>,
   <<"[", "[", "t", "-", ">", "M", "]", "]", "(", "g", "o", "t", "o", ":", "\"", "A", "\"", ")">>,
   <<"[", "a", "[", "[", "T", "<", "-", "t", "]", "]", "]",
     "(", "d", "i", "s", "p", "l", "a", "y", ":", "\"", "D", "\"", ")">>,
   <<"[", "[", "A", "]", "]", "(", "m", ":", "\"", "T", "\"", ")">>,
   <<"[", "[", "D", "]", "]", "(", "G", "o", "_", "T", "o", ":", "'", "M", "'", ")">>}

MaxPassages == 2

\* the sequences of at most n names, no name twice
NameOrders(n) ==
  {ns \in StringsUpTo(StoryNames, n) : \A i, j \in 1..Len(ns) : ns[i] = ns[j] => i = j}

StoryInit ==
  /\ PassageFields(<<"1">>, <<"n">>, <<>>, <<>>, <<"1", ",", "2">>)
  /\ \E ns \in NameOrders(MaxPassages) \ {<<>>} :
       \E cs \in [1..Len(ns) -> StoryContents] :
         passages = [i \in 1..Len(ns) |->
                       [name |-> ns[i], contents |-> cs[i], parsed_contents |-> NotParsed]]
  /\ bad_passages = NotChecked

StorySpec == StoryInit /\ [][StoryNext]_vars

(***************************************************************************)
(* The entity table, written out character by character.                   *)
(***************************************************************************)
EntityOf(c) ==
  CASE c = "&" -> <<"&", "a", "m", "p", ";">>
    [] c = "<" -> <<"&", "l", "t", ";">>
    [] c = ">" -> <<"&", "g", "t", ";">>
    [] c = "\"" -> <<"&", "q", "u", "o", "t", ";">>
    [] c = "'" -> <<"&", "#", "3", "9", ";">>
    [] OTHER -> <<c>>

\* each character of s replaced by its entity, in one pass
RECURSIVE Entities(_)
Entities(s) == IF s = <<>> THEN <<>> ELSE EntityOf(Head(s)) \o Entities(Tail(s))

IsPrefix(p, s) == Len(p) <= Len(s) /\ SubSeq(s, 1, Len(p)) = p

\* the five entities decoded once, left to right
RECURSIVE DecodeEntities(_)
DecodeEntities(s) ==
  IF s = <<>> THEN <<>>
  ELSE LET hit == {c \in {"&", "<", ">", "\"", "'"} : IsPrefix(EntityOf(c), s)}
       IN IF hit = {} THEN <<Head(s)>> \o DecodeEntities(Tail(s))
          ELSE LET c == CHOOSE x \in hit : TRUE
               IN <<c>> \o DecodeEntities(From(s, Len(EntityOf(c)) + 1))

\* whether the string p occurs in the string s
Occurs(p, s) == \E i \in 1..(Len(s) - Len(p) + 1) : SubSeq(s, i, i + Len(p) - 1) = p

\* the positions of s at which the two-character arrow a begins
ArrowsAt(a, s) == {i \in 1..(Len(s) - 1) : s[i] = a[1] /\ s[i + 1] = a[2]}

\* the token list of a text that holds no markup
PlainToks(s) == IF s = <<>> THEN <<>> ELSE <<Text(s)>>

\* the markup a token list stands for, character for character and unescaped
RECURSIVE SourceText(_)
RECURSIVE SourceOf(_)
SourceOf(t) ==
  CASE t.k = "Text" -> t.s
    [] t.k = "Variable" -> <<"$">> \o t.name
    [] t.k = "Hook" ->
         (IF t.has_nametag /\ ~t.nametag_on_right THEN <<"|">> \o t.nametag \o <<">">> ELSE <<>>)
           \o <<"[">> \o SourceText(t.hook) \o <<"]">>
           \o (IF t.has_nametag /\ t.nametag_on_right THEN <<"<">> \o t.nametag \o <<"|">> ELSE <<>>)
    [] t.k = "Link" ->
         \* the link of [[]] has an empty passage name and no arrow
         IF t.passage_name = <<>> THEN <<"[", "[">> \o SourceText(t.link_text) \o <<"]", "]">>
         ELSE IF t.passage_on_right
              THEN <<"[", "[">> \o SourceText(t.link_text) \o <<"-", ">">>
                     \o SourceText(t.passage_name) \o <<"]", "]">>
              ELSE <<"[", "[">> \o SourceText(t.passage_name) \o <<"<", "-">>
                     \o SourceText(t.link_text) \o <<"]", "]">>
    [] t.k = "Macro" ->
         <<"(">> \o SourceOf(t.name_in_source) \o <<":">> \o SourceText(t.code) \o <<")">>

SourceText(toks) == IF toks = <<>> THEN <<>> ELSE SourceOf(Head(toks)) \o SourceText(Tail(toks))

\* parse_contents() returned and str(passage) was called after it
StrAfterParse == op = "str" /\ ~parsed_contents.none

(***************************************************************************)
(* C1.  For contents made only of plain text, variables, links, terminated *)
(* hooks (with or without a nametag) and terminated macros, nested in any  *)
(* way, parse_contents() returns, and the text str(passage) then puts      *)
(* between the passage tags is the HTML-escaped contents exactly.          *)
(***************************************************************************)
C1_RoundTrip ==
  /\ op = "parse_contents" => raised = NoErr
  /\ StrAfterParse => raised = NoErr /\ out.inner = Entities(contents)

(***************************************************************************)
(* C2.  A link [[text]], [[text->dest]] or [[dest<-text]] whose sides are  *)
(* non-empty and hold no ']' tokenizes to one Link that keeps the          *)
(* direction of its arrow (passage_on_right for '->', not for '<-'), and   *)
(* serializes to the escaped source, the arrow as '-&gt;' or '&lt;-'.      *)
(***************************************************************************)
C2_LinkRoundTrip ==
  /\ op = "parse_contents" =>
       /\ raised = NoErr
       /\ Len(parsed_contents.toks) = 1
       /\ parsed_contents.toks[1].k = "Link"
       /\ Occurs(<<"-", ">">>, contents) =>
            parsed_contents.toks[1].has_passage_name /\ parsed_contents.toks[1].passage_on_right
       /\ Occurs(<<"<", "-">>, contents) =>
            parsed_contents.toks[1].has_passage_name /\ ~parsed_contents.toks[1].passage_on_right
  /\ StrAfterParse => raised = NoErr /\ out.inner = Entities(contents)

(***************************************************************************)
(* C3.  A terminated hook, anonymous or with any nametag the hook-name     *)
(* pattern accepts on its left or on its right, tokenizes to one Hook and  *)
(* serializes to the escaped source, the nametag on the side on which it   *)
(* was written.                                                            *)
(***************************************************************************)
C3_HookRoundTrip ==
  /\ op = "parse_contents" =>
       /\ raised = NoErr
       /\ Len(parsed_contents.toks) = 1
       /\ parsed_contents.toks[1].k = "Hook"
  /\ StrAfterParse => raised = NoErr /\ out.inner = Entities(contents)

(***************************************************************************)
(* C4.  A macro closed by ')' whose name is a bare identifier or a         *)
(* variable reference, alone in the contents, tokenizes to one Macro, and  *)
(* serializing that Macro succeeds and gives the escaped source.           *)
(***************************************************************************)
C4_MacroRoundTrip ==
  contents[Len(contents)] = ")" =>
    /\ op = "parse_contents" =>
         /\ raised = NoErr
         /\ Len(parsed_contents.toks) = 1
         /\ parsed_contents.toks[1].k = "Macro"
    /\ StrAfterParse => raised = NoErr /\ out.inner = Entities(contents)

(***************************************************************************)
(* C5.  Once parse_contents() has returned, str(passage) is written from   *)
(* the parsed tree, whatever the contents attribute has become since, the  *)
(* empty tree of empty contents included.                                  *)
(***************************************************************************)
C5_StrUsesParsedTree ==
  (op = "str" /\ raised = NoErr /\ ~parsed_contents.none)
    => out.inner = escape_list(parsed_contents.toks).s

(***************************************************************************)
(* C6.  str(passage) writes the pid, the name and the tags with every      *)
(* & < > " ' as its entity, and the position as it is.                     *)
(***************************************************************************)
C6_AttributesEscaped ==
  (op = "str" /\ raised = NoErr)
    => /\ out.pid = Entities(pid)
       /\ out.name = Entities(name)
       /\ out.tags = Entities(tags)
       /\ out.position = position

LinkBody == SubSeq(contents, 3, Len(contents) - 2)

\* the link body holds several arrows
SeveralArrows ==
  Cardinality(ArrowsAt(<<"-", ">">>, LinkBody) \cup ArrowsAt(<<"<", "-">>, LinkBody)) >= 2

\* the Link of a body split at the arrow at position i: text before it, target after it
SplitRight(body, i) ==
  HarloweLink(PlainToks(SubSeq(body, 1, i - 1)), TRUE, PlainToks(From(body, i + 2)), TRUE)

\* the Link of a body split at the arrow at position i: target before it, text after it
SplitLeft(body, i) ==
  HarloweLink(PlainToks(From(body, i + 2)), TRUE, PlainToks(SubSeq(body, 1, i - 1)), FALSE)

(***************************************************************************)
(* C8, as the specification states it.  A link body of several arrows and  *)
(* no ']' that holds a '->' is split at its rightmost '->' (the link text  *)
(* is everything before it, the target everything after it); one that      *)
(* holds only '<-' arrows is split at its leftmost '<-' (the target is     *)
(* everything before it, the link text everything after it).               *)
(***************************************************************************)
C8_SplitAtOutermostArrow ==
  (op = "parse_contents" /\ raised = NoErr /\ SeveralArrows) =>
    LET r == ArrowsAt(<<"-", ">">>, LinkBody)
        l == ArrowsAt(<<"<", "-">>, LinkBody)
    IN IF r # {} THEN parsed_contents.toks = <<SplitRight(LinkBody, Max(r))>>
       ELSE parsed_contents.toks = <<SplitLeft(LinkBody, Min(l))>>

\* the arrows of a link body that have at least one character on each side
InnerArrowsAt(a, s) == {i \in ArrowsAt(a, s) : 1 < i /\ i + 1 < Len(s)}

(***************************************************************************)
(* C8, amended.  A link body of several arrows and no ']' is split at the  *)
(* rightmost '->' that has text on both of its sides; when no '->' has, at *)
(* the leftmost '<-' that has text on both of its sides; when no arrow     *)
(* has, it is not split and the whole body is the link text.               *)
(***************************************************************************)
C8_SplitAtOutermostInnerArrow ==
  (op = "parse_contents" /\ SeveralArrows) =>
    /\ raised = NoErr
    /\ LET r == InnerArrowsAt(<<"-", ">">>, LinkBody)
           l == InnerArrowsAt(<<"<", "-">>, LinkBody)
       IN IF r # {} THEN parsed_contents.toks = <<SplitRight(LinkBody, Max(r))>>
          ELSE IF l # {} THEN parsed_contents.toks = <<SplitLeft(LinkBody, Min(l))>>
          ELSE parsed_contents.toks = <<HarloweLink(PlainToks(LinkBody), FALSE, <<>>, TRUE)>>

\* [[a->b->]] has been parsed: the last arrow has nothing after it, and the
\* link is split at the arrow before it
C8_Witness ==
  /\ op = "parse_contents"
  /\ contents = <<"[", "[", "a", "-", ">", "b", "-", ">", "]", "]">>
  /\ parsed_contents.toks =
       <<HarloweLink(<<Text(<<"a">>)>>, TRUE, <<Text(<<"b", "-", ">">>)>>, TRUE)>>

\* the position of the first ')' of s, 0 if it has none
RECURSIVE FirstParen(_)
FirstParen(s) ==
  IF s = <<>> THEN 0
  ELSE IF Head(s) = ")" THEN 1
  ELSE IF FirstParen(Tail(s)) = 0 THEN 0 ELSE 1 + FirstParen(Tail(s))

\* what follows the closing paren of the macro the contents begin with
AfterMacro == From(contents, FirstParen(contents) + 1)

(***************************************************************************)
(* C9.  When the closing paren of a macro is immediately followed by '['   *)
(* and a terminated hook starts there, tokenize yields the Macro and then  *)
(* that Hook as its next sibling, what follows the hook tokenized after    *)
(* it.  When no hook can be parsed at that '[', the macro handler yields   *)
(* the Macro alone and consumes nothing beyond the closing paren: what     *)
(* follows the paren is tokenized as it would be without the macro.        *)
(***************************************************************************)
C9_MacroBindsHook ==
  (op = "parse_contents" /\ AfterMacro # <<>> /\ Head(AfterMacro) = "[") =>
    /\ raised = NoErr
    /\ parsed_contents.toks # <<>>
    /\ parsed_contents.toks[1].k = "Macro"
    /\ LET h == parse_hook(<<"[">>, Tail(AfterMacro))
       IN IF h.err = NoErr /\ h.objs[1].k = "Hook"
          THEN /\ Len(parsed_contents.toks) >= 2
               /\ parsed_contents.toks[2] = h.objs[1]
               /\ SourceText(Tail(parsed_contents.toks)) = AfterMacro
          ELSE Tail(parsed_contents.toks) = tokenize(AfterMacro, NoStopPattern).toks

(***************************************************************************)
(* C10.  When '[[' is not followed by link contents closed by ']]', the    *)
(* two brackets are read as two nested hook openings: the result begins    *)
(* with a Hook whose first child is a Hook when both are terminated, and   *)
(* with the brackets as literal text when they are not, and in both cases  *)
(* the tokens hold every input character once.                             *)
(***************************************************************************)
C10_NestedHookFallback ==
  (/\ op = "parse_contents"
   /\ IsPrefix(<<"[", "[">>, contents)
   /\ ~IsPrefix(<<"[", "[", "[">>, contents)
   /\ ~link_match(From(contents, 3)).matched) =>
    /\ raised = NoErr
    /\ parsed_contents.toks # <<>>
    /\ LET first == parsed_contents.toks[1]
       IN \/ /\ first.k = "Hook"
             /\ first.hook # <<>>
             /\ first.hook[1].k = "Hook"
          \/ /\ first.k = "Text"
             /\ Head(first.s) = "["
    /\ SourceText(parsed_contents.toks) = contents

\* the index of the first ':' of s, 0 if it has none
RECURSIVE FirstColon(_)
FirstColon(s) ==
  IF s = <<>> THEN 0
  ELSE IF Head(s) = ":" THEN 1
  ELSE IF FirstColon(Tail(s)) = 0 THEN 0 ELSE 1 + FirstColon(Tail(s))

\* the name of the macro the contents begin with, as it is written
WrittenName == SubSeq(contents, 2, FirstColon(contents) - 1)

\* a name with its capitals made small and its '-' and '_' left out
RECURSIVE Canonical(_)
Canonical(s) ==
  IF s = <<>> THEN <<>>
  ELSE LET c == Head(s)
           small == {l \in LowerLetters : Upper(l) = c}
       IN (IF c \in {"-", "_"} THEN <<>>
           ELSE IF small # {} THEN <<CHOOSE l \in small : TRUE>>
           ELSE <<c>>) \o Canonical(Tail(s))

(***************************************************************************)
(* C11.  The Macro of a macro with a bare name has the name as written as  *)
(* its name_in_source and that name in small letters without any '-' or    *)
(* '_' as its canonical_name; the Macro of a macro named by a variable has *)
(* the same Variable as both; and both fields are the same after every     *)
(* modify_text call, whatever its function and whether or not it raised.   *)
(***************************************************************************)
C11_MacroNames ==
  ~parsed_contents.none =>
    LET macro == parsed_contents.toks[1]
    IN /\ macro.k = "Macro"
       /\ IF Head(WrittenName) = "$"
          THEN /\ macro.name_in_source = HarloweVariable(Tail(WrittenName))
               /\ macro.canonical_name = macro.name_in_source
          ELSE /\ macro.name_in_source = Text(WrittenName)
               /\ macro.canonical_name = Text(Canonical(WrittenName))

\* (-A__1:"a-_") has been transformed to upper case: the code has changed and
\* the names have not
C11_Witness ==
  /\ op = "modify_text"
  /\ mod_fn = "upper"
  /\ raised = NoErr
  /\ contents = <<"(", "-", "A", "_", "_", "1", ":", "\"", "a", "-", "_", "\"", ")">>
  /\ parsed_contents.toks[1].code = <<Text(<<"\"", "A", "-", "_", "\"">>)>>
  /\ parsed_contents.toks[1].name_in_source = Text(<<"-", "A", "_", "_", "1">>)
  /\ parsed_contents.toks[1].canonical_name = Text(<<"a", "1">>)

\* the code of the macro that is the whole contents, as it is written
WrittenCode == SubSeq(contents, FirstColon(contents) + 1, Len(contents) - 1)

(***************************************************************************)
(* C12.  The code of a Macro whose canonical name is 'goto' or 'display'   *)
(* is after every modify_text call what it was before it, its string       *)
(* literals included, whatever the function.                               *)
(***************************************************************************)
C12_NavigationCodeKept ==
  (/\ ~parsed_contents.none
   /\ parsed_contents.toks[1].canonical_name
        \in {Text(<<"g", "o", "t", "o">>), Text(<<"d", "i", "s", "p", "l", "a", "y">>)}) =>
    parsed_contents.toks[1].code = PlainToks(WrittenCode)

\* the index of the quote mark that ends the literal whose contents start at
\* index j of s, 0 if there is none: a backslash and the character after it are
\* part of the literal
RECURSIVE EndOfLiteral(_, _, _)
EndOfLiteral(s, j, quote) ==
  IF j > Len(s) THEN 0
  ELSE IF s[j] = quote THEN j
  ELSE IF s[j] = "\\" THEN (IF j < Len(s) THEN EndOfLiteral(s, j + 2, quote) ELSE 0)
  ELSE EndOfLiteral(s, j + 1, quote)

\* a literal's contents with \\ \" and \' decoded
RECURSIVE Unbackslashed(_)
Unbackslashed(s) ==
  IF s = <<>> THEN <<>>
  ELSE IF Len(s) >= 2 /\ s[1] = "\\" /\ s[2] \in {"\\", "\"", "'"}
       THEN <<s[2]>> \o Unbackslashed(From(s, 3))
  ELSE <<Head(s)>> \o Unbackslashed(Tail(s))

\* a text with its backslashes doubled and the quote mark backslash-escaped
RECURSIVE Backslashed(_, _)
Backslashed(s, quote) ==
  IF s = <<>> THEN <<>>
  ELSE (IF Head(s) = "\\" THEN <<"\\", "\\">>
        ELSE IF Head(s) = quote THEN <<"\\", quote>>
        ELSE <<Head(s)>>) \o Backslashed(Tail(s), quote)

\* a code text with fn applied once to the decoded contents of each literal
RECURSIVE LiteralsTransformed(_, _)
LiteralsTransformed(s, fn) ==
  IF s = <<>> THEN <<>>
  ELSE LET end == IF Head(s) \in {"\"", "'"} THEN EndOfLiteral(s, 2, Head(s)) ELSE 0
       IN IF end = 0 THEN <<Head(s)>> \o LiteralsTransformed(Tail(s), fn)
          ELSE <<Head(s)>>
                 \o Backslashed(ApplyFn(fn, Unbackslashed(SubSeq(s, 2, end - 1))), Head(s))
                 \o <<Head(s)>> \o LiteralsTransformed(From(s, end + 1), fn)

\* the code children of a macro, made of text, variables and macros, transformed
RECURSIVE CodeTransformed(_, _)
CodeTransformed(code, fn) ==
  IF code = <<>> THEN <<>>
  ELSE LET item == Head(code)
       IN <<CASE item.k = "Text" -> Text(LiteralsTransformed(item.s, fn))
              [] item.k = "Macro" -> [item EXCEPT !.code = CodeTransformed(item.code, fn)]
              [] OTHER -> item>>
            \o CodeTransformed(Tail(code), fn)

\* every backslash of s is followed by a backslash or a quote mark
PlainEscapesOnly(s) ==
  \A i \in 1..Len(s) :
    s[i] = "\\" => (i < Len(s) /\ s[i + 1] \in {"\\", "\"", "'"})

(***************************************************************************)
(* C13.  For code whose backslashes are followed only by a backslash or a  *)
(* quote mark: the first modify_text on a Macro returns, and leaves as its code  *)
(* the code that was parsed with fn applied once to the backslash-decoded  *)
(* contents of each quoted literal of its text children (a backslash takes *)
(* the character after it into the literal), written back between the same *)
(* quote marks with backslashes doubled and that quote mark escaped, every *)
(* character outside a literal unchanged, nested macros transformed alike. *)
(***************************************************************************)
C13_LiteralsTransformed ==
  (op = "modify_text" /\ mods = 1 /\ PlainEscapesOnly(contents)) =>
    /\ raised = NoErr
    /\ parsed_contents.toks[1].code
         = CodeTransformed(tokenize(contents, NoStopPattern).toks[1].code, mod_fn)

\* a sequence of nodes with fn applied to every text outside macros, to the
\* literals of every macro, and to nothing in a link that has no passage name
RECURSIVE Transformed(_, _)
Transformed(l, fn) ==
  IF l = <<>> THEN <<>>
  ELSE LET item == Head(l)
       IN <<CASE item.k = "Text" -> Text(ApplyFn(fn, item.s))
              [] item.k = "Variable" -> item
              [] item.k = "Hook" -> [item EXCEPT !.hook = Transformed(item.hook, fn)]
              [] item.k = "Link" ->
                   IF item.passage_name = <<>> THEN item
                   ELSE [item EXCEPT !.link_text = Transformed(item.link_text, fn)]
              [] item.k = "Macro" -> [item EXCEPT !.code = CodeTransformed(item.code, fn)]>>
            \o Transformed(Tail(l), fn)

\* the tree that parse_contents builds from the contents
ParsedTree == tokenize(contents, NoStopPattern).toks

\* the kinds of the nodes of a sequence
Kinds(l) == [i \in 1..Len(l) |-> l[i].k]

(***************************************************************************)
(* C14.  After the first modify_text has reached a Link of the tree: a     *)
(* Link with no passage_name is as it was parsed, nested nodes included; a *)
(* Link with a passage_name has its link_text transformed recursively and  *)
(* its passage_name and passage_on_right as they were parsed.              *)
(***************************************************************************)
C14_LinkModifyText ==
  (op = "modify_text" /\ mods = 1) =>
    /\ raised = NoErr
    /\ Len(parsed_contents.toks) = Len(ParsedTree)
    /\ \A i \in 1..Len(ParsedTree) :
         LET before == ParsedTree[i]
             after == parsed_contents.toks[i]
         IN before.k = "Link" =>
              IF before.passage_name = <<>> THEN after = before
              ELSE /\ after.k = "Link"
                   /\ after.link_text = Transformed(before.link_text, mod_fn)
                   /\ after.has_passage_name = before.has_passage_name
                   /\ after.passage_name = before.passage_name
                   /\ after.passage_on_right = before.passage_on_right

\* a link with a passage name whose link text, a macro in it, was changed by fn
C14_Witness ==
  /\ op = "modify_text" /\ mods = 1 /\ raised = NoErr
  /\ ParsedTree[1].k = "Link" /\ ParsedTree[1].passage_name # <<>>
  /\ \E j \in 1..Len(ParsedTree[1].link_text) : ParsedTree[1].link_text[j].k = "Macro"
  /\ parsed_contents.toks[1].link_text # ParsedTree[1].link_text

(***************************************************************************)
(* C15.  After the first modify_text has reached a Hook of the tree, fn    *)
(* has been applied to every Text child and to the non-text children at    *)
(* any depth, the children are as many, in the same order and of the same  *)
(* kinds, and the nametag and its side are as parsed; a Variable is as     *)
(* parsed; the node stands where it stood.                                 *)
(***************************************************************************)
C15_HookModifyText ==
  (op = "modify_text" /\ mods = 1) =>
    /\ raised = NoErr
    /\ Kinds(parsed_contents.toks) = Kinds(ParsedTree)
    /\ \A i \in 1..Len(ParsedTree) :
         LET before == ParsedTree[i]
             after == parsed_contents.toks[i]
         IN /\ before.k = "Variable" => after = before
            /\ before.k = "Hook" =>
                 /\ Kinds(after.hook) = Kinds(before.hook)
                 /\ after.hook = Transformed(before.hook, mod_fn)
                 /\ after.has_nametag = before.has_nametag
                 /\ after.nametag = before.nametag
                 /\ after.nametag_on_right = before.nametag_on_right

\* a named hook with a non-text child, whose children were changed by fn
C15_Witness ==
  /\ op = "modify_text" /\ mods = 1 /\ raised = NoErr
  /\ ParsedTree[1].k = "Hook" /\ ParsedTree[1].has_nametag
  /\ \E j \in 1..Len(ParsedTree[1].hook) : ParsedTree[1].hook[j].k # "Text"
  /\ parsed_contents.toks[1].hook # ParsedTree[1].hook

\* no two consecutive nodes of l are both Text, nor of any sequence under l
RECURSIVE TextMerged(_)
TextMerged(l) ==
  /\ \A i \in 1..(Len(l) - 1) : ~(l[i].k = "Text" /\ l[i + 1].k = "Text")
  /\ \A i \in 1..Len(l) :
       CASE l[i].k = "Hook" -> TextMerged(l[i].hook)
         [] l[i].k = "Link" -> TextMerged(l[i].link_text) /\ TextMerged(l[i].passage_name)
         [] l[i].k = "Macro" -> TextMerged(l[i].code)
         [] OTHER -> TRUE

(***************************************************************************)
(* C16.  In the tree that tokenize produces, no sequence of nodes at any   *)
(* depth (top level, hook contents, link text, link passage name, macro    *)
(* code) has two consecutive Text nodes, re-emitted '[', '|', '(' and '$'  *)
(* and hooks assembled from three or more brackets included.               *)
(***************************************************************************)
C16_TextMerged == ~parsed_contents.none => TextMerged(parsed_contents.toks)

\* three opening brackets gave a hook in a hook that holds one text with a
\* re-emitted markup character in it
C16_Witness ==
  /\ ~parsed_contents.none
  /\ Len(contents) >= 3 /\ SubSeq(contents, 1, 3) = <<"[", "[", "[">>
  /\ parsed_contents.toks[1].k = "Hook"
  /\ \E i \in 1..Len(parsed_contents.toks[1].hook) :
       LET inner == parsed_contents.toks[1].hook[i]
       IN /\ inner.k = "Hook"
          /\ \E j \in 1..Len(inner.hook) :
               /\ inner.hook[j].k = "Text"
               /\ Len(inner.hook[j].s) >= 2
               /\ \E h \in 1..Len(inner.hook[j].s) : inner.hook[j].s[h] \in {"[", "|", "(", "$"}

\* the index of the first '>' of s, 0 if there is none
FirstCloseAngle(s) ==
  LET closes == {i \in 1..Len(s) : s[i] = ">"}
  IN IF closes = {} THEN 0 ELSE Min(closes)

\* the nodes of a text of tags and plain characters: one RawHtml node for each
\* tag, holding what stands between '<' and '>', and Text nodes for the rest
RECURSIVE HtmlNodes(_, _)
HtmlNodes(s, text) ==
  LET flushed == IF text = <<>> THEN <<>> ELSE <<Text(text)>>
  IN IF s = <<>> THEN flushed
     ELSE IF Head(s) = "<" /\ FirstCloseAngle(s) > 0
     THEN flushed \o <<[k |-> "RawHtml", tag |-> SubSeq(s, 2, FirstCloseAngle(s) - 1)]>>
            \o HtmlNodes(From(s, FirstCloseAngle(s) + 1), <<>>)
     ELSE HtmlNodes(Tail(s), text \o <<Head(s)>>)

(***************************************************************************)
(* C17.  The tree that tokenize produces from a text of HTML tags and      *)
(* plain characters has one RawHtml node for each tag (opening, closing or *)
(* self-closing), its tag field the text between '<' and '>', and the text *)
(* between two tags as Text nodes, in input order.                         *)
(***************************************************************************)
C17_RawHtml == ~parsed_contents.none => parsed_contents.toks = HtmlNodes(contents, <<>>)

\* exactly two straight single quotes stand at index i of s
BoldMarkAt(s, i) ==
  /\ At(s, i) = "'" /\ At(s, i + 1) = "'"
  /\ At(s, i - 1) # "'" /\ At(s, i + 2) # "'"

\* a straight single quote with no other next to it stands at index i of s
LoneQuoteAt(s, i) == At(s, i) = "'" /\ At(s, i - 1) # "'" /\ At(s, i + 1) # "'"

(***************************************************************************)
(* C20.  After smartify_entities has been applied to a text of quotes,     *)
(* letters, digits and spaces, every pair of adjacent straight single      *)
(* quotes of the text stands unchanged at its place, whatever precedes or  *)
(* follows it, and every lone straight single quote has become a curly one.*)
(***************************************************************************)
C20_BoldMarksKept ==
  (op = "modify_text" /\ mods = 1 /\ contents # <<>>) =>
    LET smart == parsed_contents.toks[1].s
    IN /\ raised = NoErr
       /\ Len(smart) = Len(contents)
       /\ \A i \in 1..Len(contents) :
            /\ BoldMarkAt(contents, i) => smart[i] = "'" /\ smart[i + 1] = "'"
            /\ LoneQuoteAt(contents, i) => smart[i] \in {LeftSingle, RightSingle}

\* the number of grave accents s starts with
RECURSIVE LeadingBackticks(_)
LeadingBackticks(s) ==
  IF s # <<>> /\ Head(s) = Backtick THEN 1 + LeadingBackticks(Tail(s)) ELSE 0

\* the number of characters other than grave accents s starts with
RECURSIVE LeadingPlain(_)
LeadingPlain(s) ==
  IF s # <<>> /\ Head(s) # Backtick THEN 1 + LeadingPlain(Tail(s)) ELSE 0

\* s holds letters only
OnlyLetters(s) == \A i \in 1..Len(s) : IsLetter(s[i])

\* the contents read as a run of grave accents, a text, a run of as many grave
\* accents and letters: the text between the runs and the letters after them
VerbatimRead ==
  LET n == LeadingBackticks(contents)
      inner == From(contents, n + 1)
      k == LeadingPlain(inner)
      closing == From(inner, k + 1)
  IN [closed |-> n >= 1 /\ k >= 1 /\ LeadingBackticks(closing) = n
                  /\ OnlyLetters(From(closing, n + 1)),
      open |-> n >= 1 /\ k = Len(inner) /\ OnlyLetters(inner),
      text |-> SubSeq(inner, 1, k),
      after |-> From(closing, n + 1)]

(***************************************************************************)
(* C19.  tokenize of a run of N grave accents, a text, a run of N grave    *)
(* accents and letters returns and gives the text between the runs, as it  *)
(* is written and without the accents, followed by the letters after the   *)
(* closing run, none or several; tokenize of a run of grave accents and    *)
(* letters with no closing run gives the whole input as text.              *)
(***************************************************************************)
C19_VerbatimText ==
  op = "parse_contents" =>
    /\ VerbatimRead.closed =>
         /\ raised = NoErr
         /\ parsed_contents.toks = <<Text(VerbatimRead.text \o VerbatimRead.after)>>
    /\ VerbatimRead.open =>
         /\ raised = NoErr
         /\ parsed_contents.toks = <<Text(contents)>>

\* the passage names the contents of the stories refer to, as they are written
WrittenTargets(c) ==
  CASE c = <<"a">> -> <<>>
    [] c = <<"[", "[", "D", "]", "]">> -> << <<"D">> >>
    [] c[3] = "t" -> << <<"M">>, <<"A">> >>
    [] c[2] = "a" -> << <<"T">>, <<"D">> >>
    [] c[3] = "A" -> << <<"A">> >>
    [] OTHER -> << <<"D">>, <<"M">> >>

\* the names among targets that no passage of the mapping bears
MissingAmong(targets) ==
  LET NoPassage(t) == \A j \in 1..Len(passages) : passages[j].name # t
  IN SelectSeq(targets, NoPassage)

\* the reports expected for the passages from index i on
RECURSIVE ExpectedReports(_)
ExpectedReports(i) ==
  IF i > Len(passages) THEN <<>>
  ELSE LET missing == MissingAmong(WrittenTargets(passages[i].contents))
       IN (IF missing = <<>> THEN <<>>
           ELSE <<[name |-> passages[i].name, missing |-> missing]>>)
          \o ExpectedReports(i + 1)

(***************************************************************************)
(* C18.  What build_link_graph returned holds, in the order of the         *)
(* mapping, one report for each passage with a link or a goto or display   *)
(* macro whose target is no key of the mapping, listing those targets and  *)
(* no other in the order in which they are written, and no report for a    *)
(* passage whose targets are all keys.                                     *)
(***************************************************************************)
C18_MissingTargetsReported ==
  ~bad_passages.none => bad_passages.reports = ExpectedReports(1)

\* a mapping of two passages: the first has two targets, both missing, and a
\* report; the second has targets that all resolve and no report
C18_Witness ==
  /\ ~bad_passages.none
  /\ Len(passages) = 2
  /\ Len(bad_passages.reports) = 1
  /\ bad_passages.reports[1].name = passages[1].name
  /\ Len(bad_passages.reports[1].missing) = 2
  /\ WrittenTargets(passages[2].contents) # <<>>

\* s starts with '[' and no second '[', or with '|', a nametag and '>[', and
\* holds no ']'
OpensUnclosedHook(s) ==
  /\ s # <<>>
  /\ \/ s[1] = "[" /\ At(s, 2) # "["
     \/ s[1] = "|" /\ LeftTagEnd(Tail(s)) > 0
  /\ \A i \in 1..Len(s) : s[i] # "]"

(***************************************************************************)
(* C21.  When the contents open a hook and hold no ']', parse_contents     *)
(* ends as tokenize ends on the contents after their first character, and  *)
(* when it returns the tree is that first character ('[' or '|') as text   *)
(* followed by the tokens of the contents after it: nothing the failed     *)
(* attempt built is kept, and no character is lost or read twice.          *)
(***************************************************************************)
C21_UnclosedHookBacktracks ==
  (op = "parse_contents" /\ OpensUnclosedHook(contents)) =>
    LET resumed == tokenize(Tail(contents), NoStopPattern)
    IN /\ raised = resumed.err
       /\ resumed.err = NoErr =>
            parsed_contents.toks = AppendAll(<<Text(<<Head(contents)>>)>>, resumed.toks)

\* an unclosed hook with a nametag whose attempt had built a variable or a macro
C21_Witness ==
  /\ op = "parse_contents" /\ raised = NoErr
  /\ OpensUnclosedHook(contents) /\ contents[1] = "|"
  /\ \E i \in 1..Len(parsed_contents.toks) : parsed_contents.toks[i].k \in {"Variable", "Macro"}

\* the hooks written in s after a run of k '[', read from the text: each body
\* runs to the next ']', its nametag is what stands between '<' and '|' after
\* it, and the hook read before is the first child of the next
RECURSIVE NestedAs(_, _, _)
NestedAs(s, k, inner) ==
  IF k = 0 THEN [toks |-> inner, rest |-> s]
  ELSE LET n == NoBracketRun(s)
           after == From(s, n + 2)
           rt == IF after # <<>> /\ after[1] = "<" THEN RightTagEnd(Tail(after)) ELSE 0
           nametag == SubSeq(after, 2, rt)
           body == tokenize(SubSeq(s, 1, n), NoStopPattern).toks
       IN NestedAs(IF rt > 0 THEN From(after, rt + 2) ELSE after, k - 1,
                   <<HarloweHook(inner \o body, rt > 0, nametag, rt > 0)>>)

(***************************************************************************)
(* C22.  For a run of k >= 3 '[' followed by k closed hook bodies,         *)
(* parse_contents returns and the tree is one Hook for the run, followed   *)
(* only by the text written after the last ']': the hook is nested k deep, *)
(* each inner hook is the first child of the hook that encloses it, and    *)
(* each hook has its own contents and its own right nametag.               *)
(***************************************************************************)
C22_BracketRunNested ==
  op = "parse_contents" =>
    LET k == CharRun(contents, "[")
        written == NestedAs(From(contents, k + 1), k, <<>>)
    IN /\ raised = NoErr
       /\ parsed_contents.toks = written.toks \o PlainToks(written.rest)

\* three hooks with different nametags and contents, nested
C22_Witness ==
  /\ op = "parse_contents" /\ raised = NoErr
  /\ Len(parsed_contents.toks) = 1
  /\ LET h1 == parsed_contents.toks[1]
     IN /\ h1.k = "Hook" /\ h1.nametag = <<"t">> /\ Len(h1.hook) = 2
        /\ h1.hook[1].k = "Hook" /\ h1.hook[1].nametag = <<"d", "-", "1">>
        /\ Len(h1.hook[1].hook) = 2
        /\ h1.hook[1].hook[1].k = "Hook" /\ ~h1.hook[1].hook[1].has_nametag
        /\ h1.hook[1].hook[1].hook # <<>>

\* s starts with a run of three or more '[' and holds fewer ']' than the run
\* has brackets
UnmatchedRun(s) ==
  /\ CharRun(s, "[") >= 3
  /\ Cardinality({i \in 1..Len(s) : s[i] = "]"}) < CharRun(s, "[")

(***************************************************************************)
(* C23.  When the contents start with a run of three or more '[' and hold  *)
(* fewer ']' than the run has brackets, parse_contents returns or raises   *)
(* the RuntimeError of the parser, and no exception of another kind.       *)
(***************************************************************************)
C23_UnmatchedRunError ==
  (op = "parse_contents" /\ UnmatchedRun(contents)) => raised \in {NoErr, "RuntimeError"}

(***************************************************************************)
(* C24.  Whenever parse_contents has returned, whatever calls were made    *)
(* before it (parse_contents, modify_text, assignments to contents, str),  *)
(* the tree is the tokenization of the contents as they are now: no        *)
(* transformation is left in it, and a second call in a row leaves the     *)
(* tree, and so its serialization, as the first one did.                   *)
(***************************************************************************)
C24_ParseContentsResets ==
  (op = "parse_contents" /\ raised = NoErr) =>
    /\ parsed_contents = ParsedAs(tokenize(contents, NoStopPattern).toks)
    /\ PassageInner(parsed_contents, contents)
         = escape_list(tokenize(contents, NoStopPattern).toks)

\* parse_contents has returned after two modify_text calls and an assignment,
\* on a tree that the last function given to modify_text changes
C24_Witness ==
  /\ op = "parse_contents" /\ raised = NoErr
  /\ mods = 2 /\ edits = 1
  /\ ListModifyText(parsed_contents.toks, mod_fn, FALSE).assigned # parsed_contents.toks

\* the texts of a sequence of nodes, at any depth of a link
RECURSIVE LinkTexts(_)
LinkTexts(l) ==
  IF l = <<>> THEN {}
  ELSE (CASE Head(l).k = "Text" -> {Head(l).s}
          [] Head(l).k = "Macro" -> LinkTexts(Head(l).code)
          [] OTHER -> {}) \cup LinkTexts(Tail(l))

(***************************************************************************)
(* C25.  tokenize without a stop pattern, on the contents of any passage,  *)
(* reports no stop token and no remaining text; and parse_contents never   *)
(* raises the RuntimeError that _parse_link raises when the tokenization   *)
(* of a link's contents, description or destination leaves text over.      *)
(***************************************************************************)
C25_NoStopNoRemainder ==
  /\ tokenize(contents, NoStopPattern).stop = <<>>
  /\ tokenize(contents, NoStopPattern).rest = <<>>
  /\ op = "parse_contents" => raised # "RuntimeError"

\* a link with a description and a destination was parsed, and a ')' stands in
\* the text of one of them
C25_Witness ==
  /\ op = "parse_contents" /\ raised = NoErr
  /\ Len(parsed_contents.toks) = 1 /\ parsed_contents.toks[1].k = "Link"
  /\ parsed_contents.toks[1].has_passage_name
  /\ \E text \in LinkTexts(parsed_contents.toks[1].link_text)
                   \cup LinkTexts(parsed_contents.toks[1].passage_name) :
       \E i \in 1..Len(text) : text[i] = ")"

\* every pass of the loop of tokenize(s, stop_token_pattern) stops, raises or
\* goes on with a string shorter than the one it started with, every call a
\* handler makes to tokenize is given a string shorter than that one, and the
\* same holds of those calls
RECURSIVE Shortens(_, _)
Shortens(s, stop_token_pattern) ==
  IF s = <<>> THEN TRUE
  ELSE
    LET m == SearchFrom(s, 1, stop_token_pattern)
        token == StartTokenAt(s, m)
        after == From(s, m + Len(token))
        v == VerbatimTextLen(after, Len(token))
    IN IF m = 0 THEN TRUE
       ELSE IF token = <<>> THEN TRUE
       ELSE IF token[1] = Backtick
       THEN IF v = 0 THEN Len(after) < Len(s) /\ Shortens(after, stop_token_pattern)
            ELSE IF v + Len(token) + 1 > Len(after) THEN TRUE
            ELSE Shortens(<<after[v + Len(token) + 1]>>, stop_token_pattern)
       ELSE /\ \A call \in InnerCalls(token, after) :
                 Len(call[1]) < Len(s) /\ Shortens(call[1], call[2])
            /\ \E p \in {Dispatch(token, after)} :
                 p.err # NoErr \/ (Len(p.rest) < Len(s) /\ Shortens(p.rest, stop_token_pattern))

(***************************************************************************)
(* C26.  tokenize terminates on the contents of any passage: each pass of  *)
(* its loop stops, raises or shortens the remaining string by at least one *)
(* character, on every path of the handlers, and each recursive call is    *)
(* given a string strictly shorter than its caller's.                      *)
(***************************************************************************)
C26_TokenizeTerminates == Shortens(contents, NoStopPattern)

\* parse_contents has returned on contents in which a hook and a variable
\* had to be given up
C26_Witness ==
  /\ op = "parse_contents" /\ raised = NoErr
  /\ \E i \in 1..Len(contents) : contents[i] = "$"
  /\ \E i \in 1..Len(contents) : contents[i] = "["
  /\ \A i \in 1..Len(parsed_contents.toks) : parsed_contents.toks[i].k = "Text"

(***************************************************************************)
(* compile_re calls: patterns and integer flags, two pairs of which spell  *)
(* the same pattern+str(flags).                                            *)
(***************************************************************************)
CachePatterns == {<<"a">>, <<"a", "1">>, <<"b">>}

\* 0 (the default), re.IGNORECASE (2), re.IGNORECASE | re.MULTILINE (10)
CacheFlags == {0, 2, 10}

CacheInit == NewPassage(<<"1">>, <<"a">>, <<>>, <<>>, <<>>)

CacheNext == \E pattern \in CachePatterns, flags \in CacheFlags : CompileRe(pattern, flags)

CacheSpec == CacheInit /\ [][CacheNext]_vars

(***************************************************************************)
(* C27.  After any sequence of earlier calls, compile_re(pattern, flags)   *)
(* returns a regex compiled from exactly that pattern with exactly those   *)
(* flags.                                                                  *)
(***************************************************************************)
C27_CacheTransparent ==
  op = "compile_re" => regex = Compile(requested.pattern, requested.flags)

(***************************************************************************)
(* Passages whose contents are a macro that no ')' closes, bare or after   *)
(* the opening of a hook.                                                  *)
(***************************************************************************)
MacroEnclosings == {<<>>, <<"[">>, <<"|", "t", ">", "[">>}

UnterminatedPieces ==
  {<<"a">>, <<"]">>, <<"$", "v">>, <<"[">>, <<"]", "<", "t", "|">>, <<"(", "n", ":">>,
   <<"<">>, <<"|">>}

MaxUnterminatedPieces == 2

UnterminatedInit ==
  \E enclosing \in MacroEnclosings, n \in MacroNames,
     rest \in PiecesUpTo(UnterminatedPieces, MaxUnterminatedPieces) :
    PlainPassage(enclosing \o <<"(">> \o n \o <<":">> \o rest)

UnterminatedSpec == UnterminatedInit /\ [][ParseNext]_vars

\* the position of the first '(' of s, 0 if it has none
RECURSIVE FirstOpenParen(_)
FirstOpenParen(s) ==
  IF s = <<>> THEN 0
  ELSE IF Head(s) = "(" THEN 1
  ELSE IF FirstOpenParen(Tail(s)) = 0 THEN 0 ELSE 1 + FirstOpenParen(Tail(s))

\* the Macro the claim describes for the contents: the name as written after
\* the first '(' and, as code, the tokenization of all that follows the ':'
UnterminatedMacro(s) ==
  LET after == From(s, FirstOpenParen(s) + 1)
      e == MacroNameEnd(after)
      n == IF after[1] = "$" THEN HarloweVariable(SubSeq(after, 2, e - 1))
           ELSE Text(SubSeq(after, 1, e - 1))
      code == tokenize(From(after, e + 1), NoStopPattern)
  IN [err |-> code.err, macro |-> HarloweMacro(n, code.toks)]

(***************************************************************************)
(* C28.  When '(' is followed by a macro name and ':' and no ')' follows,  *)
(* parse_contents yields a Macro whose code is the tokenization of all the *)
(* remaining input, preceded only by the text of the hook opening that     *)
(* encloses the macro (the hook is not built), and str(passage) returns a  *)
(* text that ends with a ')' the contents do not hold.                     *)
(***************************************************************************)
C28_UnterminatedMacro ==
  /\ op = "parse_contents" =>
       \E m \in {UnterminatedMacro(contents)} :
         /\ raised = m.err
         /\ m.err = NoErr =>
              parsed_contents.toks =
                PlainToks(SubSeq(contents, 1, FirstOpenParen(contents) - 1)) \o <<m.macro>>
  /\ (op = "str" /\ ~parsed_contents.none) =>
       /\ raised = NoErr
       /\ out.inner # <<>>
       /\ out.inner[Len(out.inner)] = ")"
       /\ FirstParen(contents) = 0

(***************************************************************************)
(* Passages whose contents are one macro whose code is one string literal  *)
(* made of letters and backslash escapes, and which are given the identity *)
(* function to transform their text.                                       *)
(***************************************************************************)
\* a letter, \', \", \n, \x41 and \\ as written in the source
EscapePieces ==
  {<<"a">>, <<"\\", "'">>, <<"\\", "\"">>, <<"\\", "n">>, <<"\\", "x", "4", "1">>,
   <<"\\", "\\">>}

MaxEscapePieces == 2

IdentityInit ==
  \E q \in {"\"", "'"}, c \in PiecesUpTo(EscapePieces, MaxEscapePieces) :
    PlainPassage(<<"(", "m", ":", q>> \o c \o <<q, ")">>)

\* the calls of a passage whose text is transformed by lambda s: s
IdentityNext == ParseContents \/ Str \/ ModifyText("identity")

IdentitySpec == IdentityInit /\ [][IdentityNext]_vars

(***************************************************************************)
(* C29.  After modify_text with the identity function the passage          *)
(* serializes as it did when it was parsed and not yet transformed, and    *)
(* the contents c of the literal, quoted with q, satisfy                   *)
(* _escape_string(_unescape_string(c), q) = c.                             *)
(***************************************************************************)
C29_IdentityChangesNothing ==
  (op = "modify_text" /\ mod_fn = "identity") =>
    /\ raised = NoErr
    /\ PassageInner(parsed_contents, contents)
         = escape_list(tokenize(contents, NoStopPattern).toks)
    /\ LET q == contents[4]
           c == SubSeq(contents, 5, Len(contents) - 2)
       IN /\ unescape_string(c).err = NoErr
          /\ escape_string(unescape_string(c).s, q) = c

====
